---- MODULE Spec2Model ----
(***************************************************************************)
(* State-machine model of the Nexus-Mind vector store: the transfer        *)
(* orchestrator (TransferService), the membership gate                     *)
(* (MembershipService), the rebalance coordinator (Coordinator), the token *)
(* ring (TokenRing) and the per-node vector store (VectorStore).           *)
(*                                                                         *)
(* Each subsystem has its own variables, its own initial predicate and its *)
(* own next-state relation; a specification of one subsystem leaves the    *)
(* variables of the others unchanged.                                      *)
(***************************************************************************)
EXTENDS Integers, Sequences, FiniteSets, TLC

VARIABLES
    \* ---- TransferService (transfer_service.go) ----
    now,          \* time.Now() at the latest NewTransferTask, in clock ticks
    task,         \* the TransferTask objects created so far (heap), by index
    tasks,        \* ts.tasks: task ID -> index of the task object
    taskQueue,    \* ts.taskQueue: sequence of task-object indices
    activeTasks,  \* ts.activeTasks
    exec,         \* per task object: the goroutine running executeTask on it
    timers,       \* the pending time.AfterFunc re-queues: task object, delay
    \* ---- MembershipService (membership.go) and Coordinator (coordinator.go) ----
    clock,          \* time.Now(), in seconds
    nodes,          \* ms.nodes: node ID -> NodeInfo
    pendingEvents,  \* ms.pendingEvents
    lastEventTime,  \* ms.lastEventTime
    coordinatorSet, \* ms.coordinator != nil
    failedNodes,    \* checkNodeFailures: the failed nodes still to unregister
    stopped,        \* ms.Stop(): whether it was called, and when
    inflight,       \* event batches of started `go TriggerRebalancing(events)`
    operations,     \* c.operations, in the order of their creation
    \* ---- TokenRing (token_ring.go) ----
    hashOf,       \* the hash function behind r.hashKey: key -> token
    ring,         \* the TokenRing object shared by the cluster
    otherRing,    \* a second TokenRing object: a Clone kept as the old ring
    affected,     \* the latest FindAffectedVectors call and its result
    \* ---- VectorStore (vector_store.go), one store per node ----
    attached,     \* nodes whose store has vs.tokenRing != nil (the shared ring)
    vectors,      \* vs.vectors of each node: node -> (vector ID -> Values)
    adding,       \* the AddVector calls between their ownership check and their insert
    lastPut,      \* per node and vector ID: the latest AddVector that returned nil
    received,     \* the latest ReceiveVectors call and what it returned
    \* ---- LinearIndex (linear.go) ----
    index,        \* idx.vectors: vector ID -> the stored copy (Values, Deleted)
    lastInsert,   \* the latest Insert call on the index and the error it returned
    searching     \* the Search call on the index: its goroutines and channels

transferVars == <<now, task, tasks, taskQueue, activeTasks, exec, timers>>

membershipVars == <<clock, nodes, pendingEvents, lastEventTime, coordinatorSet,
                    failedNodes, stopped, inflight, operations>>

ringVars == <<hashOf, ring>>

storeVars == <<attached, vectors, adding, lastPut, received>>

indexVars == <<index, lastInsert, searching>>

diffVars == <<otherRing, affected>>

vars == <<transferVars, membershipVars, ringVars, storeVars, indexVars, diffVars>>

\* What the steps of one subsystem leave unchanged.
nonTransferVars == <<membershipVars, ringVars, storeVars, indexVars, diffVars>>
nonMembershipVars == <<transferVars, ringVars, storeVars, indexVars, diffVars>>
nonRingVars == <<transferVars, membershipVars, storeVars, indexVars, diffVars>>
nonStoreVars == <<transferVars, membershipVars, ringVars, indexVars, diffVars>>
nonIndexVars == <<transferVars, membershipVars, ringVars, storeVars, diffVars>>
nonDiffVars == <<transferVars, membershipVars, storeVars, indexVars>>

----------------------------------------------------------------------------
(* Bounds of the model *)

MaxTasks == 2        \* task objects created by callers (SpecTransfer)
MaxSplitTasks == 1   \* task objects created by callers (SpecSubTasks)
maxConcurrent == 1   \* ts.maxConcurrent as configured by the caller

(* Inputs of the callers *)

Priorities == {1, 2}      \* TransferTask.Priority
WholeTaskVectors == <<"v1">>          \* VectorIDs of a task moved as one unit
SplitTaskVectors == <<"v1", "v2">>    \* VectorIDs of a task that may be split
SplitBatchSizes == {1, 2}             \* batchSize of CreateSubTasks for it
\* VectorIDs and batch sizes of the tasks the planner splits
PlannedVectors == <<"v1", "v2", "v3", "v4", "v5">>
PlannedBatchSizes == {-1, 0, 1, 2, 3}

MaxTicks == 4        \* clock ticks of the membership gate
MaxPending == 2      \* events waiting in ms.pendingEvents
MaxOps == 1          \* rebalance triggers issued
MaxPendingEvents == 2   \* ms.config.MaxPendingEvents as configured by the caller

NodeIds == {"n1", "n2"}   \* node identifiers

VirtualNodes == 2    \* r.virtualNodes as configured by the caller
TokenSpace == 5      \* number of distinct values the modelled hash can take
dimensions == 2      \* vs.dimensions as configured by the caller
MaxAdding == 1       \* AddVector calls under way at once

RingNodes == NodeIds \cup {"n3"}    \* node identifiers given to the ring
JoinNodes == RingNodes \cup {"n4"}  \* the same, with one more node to join
VectorIds == {"v1", "v2"}          \* vector identifiers hashed on the ring
StoredIds == {"v1"}                \* vector identifiers put into the stores
BatchLens == {1, 2}                \* lengths of the batches sent to ReceiveVectors
ReplicationFactors == {1, 2, 3}    \* r.replicationFactor as configured
ClusterReplicationFactors == {1, 2}   \* the same, for the two-node cluster
HashMults == {1, 2, 3}             \* the family of hash functions tried:
HashAdds == {0, 1}                 \*   token = (code * mult + add) % TokenSpace
RangeSeeds == {0, 1}                 \* where a loop over a map starts

(* Program constants *)

StabilizationPeriodSeconds == 30   \* DefaultMembershipConfig()
TickSeconds == 10                  \* the clock advances by the sleep of checkNodeFailures

MaxRetries == 3              \* DefaultRetryConfig().MaxRetries
maxSubTaskConcurrency == 10  \* NewTransferService

----------------------------------------------------------------------------
(* TaskState *)

Pending == "Pending"
InProgress == "InProgress"
Completed == "Completed"
Failed == "Failed"
Retrying == "Retrying"

TaskState == {Pending, InProgress, Completed, Failed, Retrying}

(* The texts written to TransferTask.LastError *)
NoError == ""
ErrSimulated == "Simulated transfer failure"
ErrSubTask == "Subtask failed"
ErrCancelled == "Task cancelled by user"

Max(S) == CHOOSE x \in S : \A y \in S : y <= x

Min(a, b) == IF a < b THEN a ELSE b

RemoveAt(s, k) == SubSeq(s, 1, k - 1) \o SubSeq(s, k + 1, Len(s))

\* The transfer orchestrator as constructed, before any call.
TransferIdle ==
    /\ now = 0
    /\ task = <<>>
    /\ tasks = <<>>
    /\ taskQueue = <<>>
    /\ activeTasks = 0
    /\ exec = <<>>
    /\ timers = {}

\* The membership gate and the coordinator as constructed, before any call.
MembershipIdle ==
    /\ clock = 0
    /\ nodes = <<>>
    /\ pendingEvents = <<>>
    /\ lastEventTime = 0
    /\ coordinatorSet = FALSE
    /\ failedNodes = <<>>
    /\ stopped = [called |-> FALSE, at |-> 0]
    /\ inflight = <<>>
    /\ operations = <<>>

----------------------------------------------------------------------------
(* TokenRing: the consistent-hash ring (token_ring.go) *)

\* A Go map with no entries.
EmptyMap == [x \in {} |-> 0]

\* m[k] = v on a Go map.
MapPut(m, k, v) == [x \in DOMAIN m \cup {k} |-> IF x = k THEN v ELSE m[x]]

MapDelete(m, k) == [x \in DOMAIN m \ {k} |-> m[x]]

\* The key AddNode hashes for virtual node i of a node:
\* nodeID + ":" + strconv.Itoa(i).
nodeKey(nodeID, i) == nodeID \o ":" \o ToString(i)

HashKeys == VectorIds \cup {nodeKey(n, i) : n \in JoinNodes, i \in 0..(VirtualNodes - 1)}

\* hashKey is the low 64 bits of MD5: a fixed function of the key that can
\* order the keys in any way and can map two keys to one token.  The model
\* takes it from a family of functions onto a small token space; KeyCode
\* numbers the keys, the vector IDs first.
VectorNumber == "v1" :> 0 @@ "v2" :> 1
NodeNumber == "n1" :> 0 @@ "n2" :> 1 @@ "n3" :> 2 @@ "n4" :> 3

KeyCode(key) ==
    IF key \in VectorIds
    THEN VectorNumber[key]
    ELSE CHOOSE c \in 0..(Cardinality(HashKeys) - 1) :
           \E n \in JoinNodes, i \in 0..(VirtualNodes - 1) :
              /\ key = nodeKey(n, i)
              /\ c = Cardinality(VectorIds) + NodeNumber[n] * VirtualNodes + i

HashFunctions ==
    {[key \in HashKeys |-> (KeyCode(key) * m + a) % TokenSpace] :
        m \in HashMults, a \in HashAdds}
    \cup {[key \in HashKeys |-> (KeyCode(key) * KeyCode(key)) % TokenSpace]}

\* The hash functions tried for the two-node cluster: the ones with offset
\* one, and the quadratic one.
ClusterHashFunctions ==
    {[key \in HashKeys |-> (KeyCode(key) * m + 1) % TokenSpace] : m \in HashMults}
    \cup {[key \in HashKeys |-> (KeyCode(key) * KeyCode(key)) % TokenSpace]}

hashKey(key) == hashOf[key]

NewTokenRing(virtualNodes, replicationFactor) ==
    [tokens |-> EmptyMap,
     sortedTokens |-> <<>>,
     nodeTokens |-> EmptyMap,
     virtualNodes |-> virtualNodes,
     replicationFactor |-> replicationFactor]

\* The token ring before any node is added; the hash function is fixed.
RingIdle ==
    /\ hashOf = [key \in HashKeys |-> KeyCode(key) % TokenSpace]
    /\ ring = NewTokenRing(VirtualNodes, 1)

\* The keys of a map as they lie in its buckets: one fixed enumeration, in
\* the model the ascending one.
RECURSIVE bucketOrder(_)
bucketOrder(S) ==
    IF S = {} THEN <<>>
    ELSE LET m == CHOOSE x \in S : \A y \in S : x <= y
         IN  <<m>> \o bucketOrder(S \ {m})

\* for token := range r.tokens: the keys in an order that changes from one
\* loop to the next; the loop starts at a random place of the buckets and
\* wraps around.
rangeTokens(tokens, seed) ==
    LET list == bucketOrder(DOMAIN tokens)
        n == Len(list)
    IN  [i \in 1..n |-> list[((i - 1 + seed) % n) + 1]]

\* One step of the sort: token put before the first larger entry of a
\* sorted list.
RECURSIVE insertToken(_, _)
insertToken(sorted, token) ==
    IF sorted = <<>> THEN <<token>>
    ELSE IF token < Head(sorted) THEN <<token>> \o sorted
    ELSE <<Head(sorted)>> \o insertToken(Tail(sorted), token)

\* sort.Slice(r.sortedTokens, less) with less comparing two tokens by <.
RECURSIVE sortTokens(_)
sortTokens(list) ==
    IF list = <<>> THEN <<>>
    ELSE insertToken(sortTokens(Tail(list)), Head(list))

\* A rebuild that leaves the tokens in the order of the loop over the map.
updateSortedTokensUnsorted(r, seed) ==
    [r EXCEPT !.sortedTokens = rangeTokens(r.tokens, seed)]

\* Rebuilds r.sortedTokens: the keys of r.tokens appended in the order of
\* the loop over the map, then sorted ascending.
updateSortedTokens(r, seed) ==
    [r EXCEPT !.sortedTokens = sortTokens(rangeTokens(r.tokens, seed))]

\* The loop of AddNode from virtual node i on: each token is written over
\* whatever r.tokens held for it and appended to the node's own list.
RECURSIVE addVirtualNodes(_, _, _, _)
addVirtualNodes(r, nodeID, i, nodeTokens) ==
    IF ~(i < r.virtualNodes)
    THEN [r EXCEPT !.nodeTokens = MapPut(r.nodeTokens, nodeID, nodeTokens)]
    ELSE LET token == hashKey(nodeKey(nodeID, i))
         IN  addVirtualNodes([r EXCEPT !.tokens = MapPut(r.tokens, token, nodeID)],
                             nodeID, i + 1, Append(nodeTokens, token))

\* An AddNode that does not look whether the node is there already.
AddNodeUnchecked(r, nodeID, seed) ==
    updateSortedTokens(addVirtualNodes(r, nodeID, 0, <<>>), seed)

AddNode(r, nodeID, seed) ==
    IF nodeID \in DOMAIN r.nodeTokens
    THEN r
    ELSE updateSortedTokens(addVirtualNodes(r, nodeID, 0, <<>>), seed)

\* The loop of RemoveNode: delete(r.tokens, token) for each token of the list.
RECURSIVE deleteTokens(_, _, _)
deleteTokens(tokens, list, k) ==
    IF k > Len(list) THEN tokens
    ELSE deleteTokens(MapDelete(tokens, list[k]), list, k + 1)

RemoveNode(r, nodeID, seed) ==
    IF nodeID \notin DOMAIN r.nodeTokens
    THEN r
    ELSE updateSortedTokens(
           [r EXCEPT !.tokens = deleteTokens(r.tokens, r.nodeTokens[nodeID], 1),
                     !.nodeTokens = MapDelete(r.nodeTokens, nodeID)],
           seed)

\* sort.Search: the first (0-based) index whose token is >= hash, or the
\* length of the list when there is none.
sortSearch(sortedTokens, hash) ==
    LET hits == {i \in 0..(Len(sortedTokens) - 1) : sortedTokens[i + 1] >= hash}
    IN  IF hits = {} THEN Len(sortedTokens)
        ELSE CHOOSE i \in hits : \A j \in hits : i <= j

\* A walk that appends the node of every token it passes, seen before or not.
RECURSIVE walkRingNoVisited(_, _, _, _, _)
walkRingNoVisited(r, startIdx, idx, result, visited) ==
    IF ~(Len(result) < r.replicationFactor
         /\ Cardinality(visited) < Cardinality(DOMAIN r.nodeTokens))
    THEN result
    ELSE LET nodeID == r.tokens[r.sortedTokens[idx + 1]]
             result2 == Append(result, nodeID)
             idx2 == (idx + 1) % Len(r.sortedTokens)
         IN  IF idx2 = startIdx /\ Len(result2) < r.replicationFactor
             THEN result2
             ELSE walkRingNoVisited(r, startIdx, idx2, result2, {})

\* The loop of GetNodesForVector: walk the ring clockwise from idx, collect
\* the nodes not seen before, stop at R nodes, when every node was seen, or
\* back at the start.
RECURSIVE walkRing(_, _, _, _, _)
walkRing(r, startIdx, idx, result, visited) ==
    IF ~(Len(result) < r.replicationFactor
         /\ Cardinality(visited) < Cardinality(DOMAIN r.nodeTokens))
    THEN result
    ELSE LET nodeID == r.tokens[r.sortedTokens[idx + 1]]
             fresh == nodeID \notin visited
             result2 == IF fresh THEN Append(result, nodeID) ELSE result
             visited2 == visited \cup {nodeID}
             idx2 == (idx + 1) % Len(r.sortedTokens)
         IN  IF idx2 = startIdx /\ Len(result2) < r.replicationFactor
             THEN result2
             ELSE walkRing(r, startIdx, idx2, result2, visited2)

GetNodesForVector(r, vectorID) ==
    IF Len(r.sortedTokens) = 0
    THEN <<>>
    ELSE LET hash == hashKey(vectorID)
             found == sortSearch(r.sortedTokens, hash)
             idx == IF found = Len(r.sortedTokens) THEN 0 ELSE found
         IN  walkRing(r, idx, idx, <<>>, {})

GetAllNodes(r) == DOMAIN r.nodeTokens

\* TokenRing.AddNode and TokenRing.RemoveNode called on the shared ring.
CallAddNode(nodeID) ==
    /\ \E seed \in RangeSeeds : ring' = AddNode(ring, nodeID, seed)
    /\ UNCHANGED <<hashOf, nonRingVars>>

CallRemoveNode(nodeID) ==
    /\ \E seed \in RangeSeeds : ring' = RemoveNode(ring, nodeID, seed)
    /\ UNCHANGED <<hashOf, nonRingVars>>

----------------------------------------------------------------------------
(* VectorStore: the per-node vector store (vector_store.go) *)

\* The Values of the vectors callers put: two of the store's dimension, one
\* of a wrong dimension.
PutValues ==
    {[i \in 1..dimensions |-> i],
     [i \in 1..dimensions |-> dimensions + 1 - i],
     <<7>>}

\* make([]float32, n): n zeroes.
make(n) == [i \in 1..n |-> 0]

\* A copy that leaves the destination as allocated.
copyNothing(dst, src) == dst

\* copy(dst, src): the first min(len(dst), len(src)) elements of src over dst.
copy(dst, src) == [i \in DOMAIN dst |-> IF i <= Len(src) THEN src[i] ELSE dst[i]]

\* No AddVector has returned nil since the store was created or the vector
\* was deleted.
NoPut == [returned |-> FALSE, Values |-> <<>>, hasRing |-> FALSE, isLocal |-> FALSE]

\* No ReceiveVectors call has returned yet.
NoReceive == [called |-> FALSE, node |-> "", batch |-> <<>>, success |-> FALSE]

\* No Search call was made on the index.
NoSearch ==
    [called |-> FALSE, running |-> FALSE, query |-> <<>>, k |-> 0, filter |-> {},
     numWorkers |-> 0, feed |-> <<>>, feederDone |-> FALSE,
     workCh |-> <<>>, workClosed |-> FALSE, worker |-> <<>>, evaluated |-> <<>>,
     resultCh |-> <<>>, resultClosed |-> FALSE, results |-> <<>>,
     returned |-> <<>>, err |-> NoError]

\* The stores as constructed: empty, no ring attached, no call under way;
\* the linear index as constructed: empty.
StoreIdle ==
    /\ attached = {}
    /\ vectors = [n \in NodeIds |-> EmptyMap]
    /\ adding = {}
    /\ lastPut = [n \in NodeIds |-> [id \in StoredIds |-> NoPut]]
    /\ received = NoReceive
    /\ index = EmptyMap
    /\ lastInsert = [called |-> FALSE, ID |-> "", Values |-> <<>>, err |-> ""]
    /\ searching = NoSearch

SetTokenRing(n) ==
    /\ attached' = attached \cup {n}
    /\ UNCHANGED <<vectors, adding, lastPut, received, nonStoreVars>>

\* The `for ... GetNodesForVector` scan of AddVector and GetLocalVectorIDs.
isLocal(n, id) ==
    \E k \in DOMAIN GetNodesForVector(ring, id) : GetNodesForVector(ring, id)[k] = n

\* What an AddVector call that returned nil was: its Values, whether the store
\* had a ring at its ownership check and whether the ring listed the node.
PutRecord(values, hasRing, local) ==
    [returned |-> TRUE, Values |-> values, hasRing |-> hasRing, isLocal |-> local]

\* An AddVector that goes on to the insert whatever the ring says.
AddVectorCheckNoOwnership(n, id, values) ==
    /\ IF Len(values) # dimensions
       THEN UNCHANGED <<adding, lastPut>>
       ELSE /\ adding' = adding \cup
                          {[node |-> n, ID |-> id,
                            put |-> PutRecord(values, n \in attached,
                                              n \in attached /\ isLocal(n, id))]}
            /\ UNCHANGED lastPut
    /\ UNCHANGED <<attached, vectors, received, nonStoreVars>>

\* AddVector up to the release of the read lock: the dimension check (an
\* error changes nothing) and, with a ring attached, the ownership check; a
\* vector that does not belong on the node is skipped and nil is returned.
AddVectorCheck(n, id, values) ==
    /\ IF Len(values) # dimensions
       THEN UNCHANGED <<adding, lastPut>>
       ELSE IF n \in attached /\ ~isLocal(n, id)
       THEN /\ lastPut' = [lastPut EXCEPT ![n][id] = PutRecord(values, TRUE, FALSE)]
            /\ UNCHANGED adding
       ELSE /\ adding' = adding \cup
                          {[node |-> n, ID |-> id,
                            put |-> PutRecord(values, n \in attached,
                                              n \in attached /\ isLocal(n, id))]}
            /\ UNCHANGED lastPut
    /\ UNCHANGED <<attached, vectors, received, nonStoreVars>>

\* AddVector under the write lock: a deep copy of the vector is stored under
\* its ID and nil is returned.
AddVectorInsert(call) ==
    /\ call \in adding
    /\ LET n == call.node
           id == call.ID
           newValues == copy(make(Len(call.put.Values)), call.put.Values)
       IN  /\ vectors' = [vectors EXCEPT ![n] = MapPut(vectors[n], id, newValues)]
           /\ lastPut' = [lastPut EXCEPT ![n][id] = call.put]
    /\ adding' = adding \ {call}
    /\ UNCHANGED <<attached, received, nonStoreVars>>

\* GetVector: a copy of the stored Values, or the not-found error.
GetVector(n, id) ==
    IF id \notin DOMAIN vectors[n]
    THEN [err |-> "not found", Values |-> <<>>]
    ELSE [err |-> "", Values |-> copy(make(Len(vectors[n][id])), vectors[n][id])]

\* DeleteVector: removes the entry; the not-found error changes nothing.
DeleteVector(n, id) ==
    /\ IF id \notin DOMAIN vectors[n]
       THEN UNCHANGED <<vectors, lastPut>>
       ELSE /\ vectors' = [vectors EXCEPT ![n] = MapDelete(vectors[n], id)]
            /\ lastPut' = [lastPut EXCEPT ![n][id] = NoPut]
    /\ UNCHANGED <<attached, adding, received, nonStoreVars>>

\* What DeleteVector(id) returns on a store with these vectors, and the
\* vectors it leaves.
DeleteVectorError(store, id) == IF id \notin DOMAIN store THEN "not found" ELSE ""
DeleteVectorLeaves(store, id) ==
    IF id \notin DOMAIN store THEN store ELSE MapDelete(store, id)

GetAllVectorIDs(n) == DOMAIN vectors[n]

\* The vectors and the batches sent to ReceiveVectors.
VectorsToPut == {[ID |-> id, Values |-> values] : id \in StoredIds, values \in PutValues}

Batches == UNION {[1..len -> VectorsToPut] : len \in BatchLens}

\* The loop of ReceiveVectors from vector k of the batch on: AddVector for
\* each vector in turn (each call taken whole), stopping with false at the
\* first error.  store and puts are vs.vectors and the nil returns of
\* AddVector on node n so far.
RECURSIVE receiveLoop(_, _, _, _, _)
receiveLoop(n, batch, k, store, puts) ==
    IF k > Len(batch)
    THEN [success |-> TRUE, store |-> store, puts |-> puts]
    ELSE LET vector == batch[k]
         IN  IF Len(vector.Values) # dimensions
             THEN [success |-> FALSE, store |-> store, puts |-> puts]
             ELSE IF n \in attached /\ ~isLocal(n, vector.ID)
             THEN receiveLoop(n, batch, k + 1, store,
                      [puts EXCEPT ![vector.ID] = PutRecord(vector.Values, TRUE, FALSE)])
             ELSE receiveLoop(n, batch, k + 1,
                      MapPut(store, vector.ID,
                             copy(make(Len(vector.Values)), vector.Values)),
                      [puts EXCEPT ![vector.ID] =
                          PutRecord(vector.Values, n \in attached, n \in attached)])

\* ReceiveVectors on node n: true when no AddVector returned an error.
ReceiveVectors(n, batch) ==
    LET out == receiveLoop(n, batch, 1, vectors[n], lastPut[n])
    IN  /\ vectors' = [vectors EXCEPT ![n] = out.store]
        /\ lastPut' = [lastPut EXCEPT ![n] = out.puts]
        /\ received' = [called |-> TRUE, node |-> n, batch |-> batch,
                        success |-> out.success]
        /\ UNCHANGED <<attached, adding, nonStoreVars>>


\* EuclideanDistance without its final square root: the sum of the squared
\* differences.  The root is strictly increasing, so the order of two
\* distances and their ties are those of the sums.
EuclideanDistance(a, b) ==
    LET sumSquares[i \in 0..Len(a)] ==
            IF i = 0 THEN 0 ELSE sumSquares[i - 1] + (a[i] - b[i]) * (a[i] - b[i])
    IN  sumSquares[Len(a)]

\* A sort that puts the lower Distance first whatever the metric.
sortSliceAscending(results, higherBetter) ==
    {s \in [1..Cardinality(results) -> results] :
        /\ \A i, j \in DOMAIN s : i # j => s[i] # s[j]
        /\ \A i, j \in DOMAIN s : i < j => ~(s[j].Distance < s[i].Distance)}

\* sort.Slice(results, less) with less comparing the Distance of two results,
\* i.Distance > j.Distance for a metric where higher is better and
\* i.Distance < j.Distance otherwise: the results in an order without
\* inversion; results of equal Distance come out in any order.
sortSlice(results, higherBetter) ==
    LET less(x, y) == IF higherBetter THEN x.Distance > y.Distance
                                      ELSE x.Distance < y.Distance
    IN  {s \in [1..Cardinality(results) -> results] :
            /\ \A i, j \in DOMAIN s : i # j => s[i] # s[j]
            /\ \A i, j \in DOMAIN s : i < j => ~less(s[j], s[i])}

\* results[:k]
Truncate(results, k) == SubSeq(results, 1, k)

\* The queries, result limits and filters callers pass to a search; a filter
\* is the set of the IDs it accepts, NoFilter the nil filter.
Queries == PutValues
SearchLimits == {-1, 0, 1, 2, 3}
NoFilter == VectorIds
Filters == {NoFilter, {"v1"}}

\* VectorStore.Search: the result lists the call can return (none with the
\* dimension error).  Every stored vector the filter accepts is a candidate;
\* the candidates are sorted by ascending distance and cut to k when
\* 0 < k < len(results).
Search(n, query, k, filter) ==
    IF Len(query) # dimensions
    THEN {}
    ELSE LET results ==
                 {[ID |-> id, Distance |-> EuclideanDistance(query, vectors[n][id])] :
                      id \in DOMAIN vectors[n] \cap filter}
             sorted == sortSlice(results, FALSE)
         IN  {IF k > 0 /\ k < Len(s) THEN Truncate(s, k) ELSE s : s \in sorted}

\* "totalVectors" of GetStats: len(vs.vectors).
totalVectors(n) == Cardinality(DOMAIN vectors[n])

----------------------------------------------------------------------------
(* LinearIndex: the brute-force index of a collection (linear.go), with the
   Euclidean metric *)

\* models.NewVector(id, values): a vector that is not deleted.
NewVector(id, values) == [ID |-> id, Values |-> values, Deleted |-> FALSE]

IndexVectors == {NewVector(id, values) : id \in VectorIds, values \in PutValues}

\* Vector.Copy: the Values copied into a new slice, the flags kept.
Copy(v) ==
    [ID |-> v.ID, Values |-> copy(make(Len(v.Values)), v.Values), Deleted |-> v.Deleted]

\* The record of an Insert call that returned.
InsertRecord(v, err) == [called |-> TRUE, ID |-> v.ID, Values |-> v.Values, err |-> err]

ErrDimension == "vector dimension does not match index dimension"

\* An Insert without the dimension check.
InsertAnyDimension(v) ==
    /\ index' = MapPut(index, v.ID, Copy(v))
    /\ lastInsert' = InsertRecord(v, NoError)
    /\ UNCHANGED <<searching, nonIndexVars>>

\* LinearIndex.Insert: the dimension error changes nothing; otherwise a copy
\* of the vector replaces the entry of its ID.
Insert(v) ==
    /\ IF Len(v.Values) # dimensions
       THEN /\ UNCHANGED index
            /\ lastInsert' = InsertRecord(v, ErrDimension)
       ELSE /\ index' = MapPut(index, v.ID, Copy(v))
            /\ lastInsert' = InsertRecord(v, NoError)
    /\ UNCHANGED <<searching, nonIndexVars>>

\* LinearIndex.Delete: the entry stays in the map and is marked deleted; the
\* not-found error changes nothing.
Delete(id) ==
    /\ IF id \in DOMAIN index
       THEN index' = [index EXCEPT ![id].Deleted = TRUE]
       ELSE UNCHANGED index
    /\ UNCHANGED <<lastInsert, searching, nonIndexVars>>

\* What Delete(id) returns on an index with these entries, and the entries
\* it leaves.
DeleteError(entries, id) == IF id \in DOMAIN entries THEN "" ELSE "not found"
DeleteLeaves(entries, id) ==
    IF id \in DOMAIN entries THEN [entries EXCEPT ![id].Deleted = TRUE] ELSE entries

\* A Size that counts every entry of the map.
SizeOfMap == Cardinality(DOMAIN index)

\* LinearIndex.Size: the entries that are not marked deleted.
Size == Cardinality({id \in DOMAIN index : ~index[id].Deleted})

\* LinearIndex.Search: the result lists the call can return (none with the
\* dimension error).  k <= 0 stands for 10 and k is capped at the number of
\* entries of the map; the workers skip the deleted and the filtered
\* vectors; the results are sorted by ascending distance and cut to k.
LinearIndexSearch(query, k, filter) ==
    IF Len(query) # dimensions
    THEN {}
    ELSE LET k1 == IF k <= 0 THEN 10 ELSE k
             k2 == IF k1 > Cardinality(DOMAIN index)
                   THEN Cardinality(DOMAIN index) ELSE k1
             results ==
                 {[ID |-> id, Distance |-> EuclideanDistance(query, index[id].Values)] :
                      id \in {x \in DOMAIN index \cap filter : ~index[x].Deleted}}
             sorted == sortSlice(results, FALSE)
         IN  {IF Len(s) > k2 THEN Truncate(s, k2) ELSE s : s \in sorted}

\* The metrics of an index whose values stay integers: models.DotProduct,
\* models.Euclidean, models.Manhattan.
DotProductMetric == "dot_product"
EuclideanMetric == "euclidean"
ManhattanMetric == "manhattan"
Metrics == {DotProductMetric, EuclideanMetric, ManhattanMetric}

\* vector.DotProduct
DotProduct(a, b) ==
    LET dotProduct[i \in 0..Len(a)] ==
            IF i = 0 THEN 0 ELSE dotProduct[i - 1] + a[i] * b[i]
    IN  dotProduct[Len(a)]

\* math.Abs
Abs(x) == IF x < 0 THEN 0 - x ELSE x

\* vector.ManhattanDistance
ManhattanDistance(a, b) ==
    LET sumAbsDiff[i \in 0..Len(a)] ==
            IF i = 0 THEN 0 ELSE sumAbsDiff[i - 1] + Abs(a[i] - b[i])
    IN  sumAbsDiff[Len(a)]

\* vector.GetDistanceFunc(metric), applied to a and b.
GetDistanceFunc(metric, a, b) ==
    CASE metric = DotProductMetric -> DotProduct(a, b)
      [] metric = EuclideanMetric -> EuclideanDistance(a, b)
      [] metric = ManhattanMetric -> ManhattanDistance(a, b)

\* vector.IsHigherBetter
IsHigherBetter(metric) ==
    CASE metric = DotProductMetric -> TRUE
      [] metric \in {EuclideanMetric, ManhattanMetric} -> FALSE
      [] OTHER -> TRUE

\* LinearIndex.Search of an index built with the given metric: as above, with
\* the distance function of the metric and the sort direction of
\* IsHigherBetter.
LinearIndexSearchBy(metric, query, k, filter) ==
    IF Len(query) # dimensions
    THEN {}
    ELSE LET k1 == IF k <= 0 THEN 10 ELSE k
             k2 == IF k1 > Cardinality(DOMAIN index)
                   THEN Cardinality(DOMAIN index) ELSE k1
             results ==
                 {[ID |-> id,
                   Distance |-> GetDistanceFunc(metric, query, index[id].Values)] :
                      id \in {x \in DOMAIN index \cap filter : ~index[x].Deleted}}
             sorted == sortSlice(results, IsHigherBetter(metric))
         IN  {IF Len(s) > k2 THEN Truncate(s, k2) ELSE s : s \in sorted}

----------------------------------------------------------------------------
(* TokenRing: the old ring and the new one (token_ring.go) *)

\* No FindAffectedVectors call has returned yet.
NoDiff == [called |-> FALSE, vectors |-> <<>>, result |-> EmptyMap]

\* No Clone was taken and no diff computed.
DiffIdle ==
    /\ otherRing = NewTokenRing(VirtualNodes, 1)
    /\ affected = NoDiff

\* Clone: a new ring with the same parameters and copies of the three
\* collections.
Clone(r) ==
    [tokens |-> [token \in DOMAIN r.tokens |-> r.tokens[token]],
     sortedTokens |-> copy(make(Len(r.sortedTokens)), r.sortedTokens),
     nodeTokens |-> [nodeID \in DOMAIN r.nodeTokens |->
                        copy(make(Len(r.nodeTokens[nodeID])), r.nodeTokens[nodeID])],
     virtualNodes |-> r.virtualNodes,
     replicationFactor |-> r.replicationFactor]

\* The inner loops of FindAffectedVectors for one vector: every new node
\* from position j on that is not among the old nodes gets the vector
\* appended to its list.
RECURSIVE appendToNewNodes(_, _, _, _, _)
appendToNewNodes(result, newNodes, oldNodes, vectorID, j) ==
    IF j > Len(newNodes) THEN result
    ELSE LET newNode == newNodes[j]
             found == \E i \in DOMAIN oldNodes : newNode = oldNodes[i]
             list == IF newNode \in DOMAIN result THEN result[newNode] ELSE <<>>
         IN  appendToNewNodes(
                 IF found THEN result
                 ELSE MapPut(result, newNode, Append(list, vectorID)),
                 newNodes, oldNodes, vectorID, j + 1)

\* The outer loop of FindAffectedVectors from vector k on.
RECURSIVE affectedLoop(_, _, _, _, _)
affectedLoop(r, oldRing, ids, k, result) ==
    IF k > Len(ids) THEN result
    ELSE affectedLoop(r, oldRing, ids, k + 1,
                      appendToNewNodes(result,
                                       GetNodesForVector(r, ids[k]),
                                       GetNodesForVector(oldRing, ids[k]),
                                       ids[k], 1))

\* A diff that lists the vectors under the nodes that lost them.
FindAffectedVectorsOfOld(r, oldRing, ids) == affectedLoop(oldRing, r, ids, 1, EmptyMap)

\* r.FindAffectedVectors(oldRing, vectors): node -> the vectors the node
\* owns in r and did not own in oldRing, in the order of the list.
FindAffectedVectors(r, oldRing, ids) == affectedLoop(r, oldRing, ids, 1, EmptyMap)

\* The lists of vector IDs passed to FindAffectedVectors.
VectorLists == UNION {[1..len -> VectorIds] : len \in 0..2}

\* oldRing := ring.Clone()
CallClone ==
    /\ otherRing' = Clone(ring)
    /\ UNCHANGED <<affected, hashOf, ring, nonDiffVars>>

\* ring.FindAffectedVectors(oldRing, vectors)
CallFindAffectedVectors(ids) ==
    /\ affected' = [called |-> TRUE, vectors |-> ids,
                    result |-> FindAffectedVectors(ring, otherRing, ids)]
    /\ UNCHANGED <<otherRing, hashOf, ring, nonDiffVars>>

----------------------------------------------------------------------------
(* TransferTask construction *)

\* NewTransferTask: the ID is "task-<now>", the state Pending, no attempts,
\* no sub-tasks.
NewTransferTask(priority, vectorIDs, t) ==
    [ID |-> t, Priority |-> priority, State |-> Pending, VectorIDs |-> vectorIDs,
     AttemptCount |-> 0, LastError |-> NoError, CreatedAt |-> t, SubTasks |-> <<>>]

\* int(math.Ceil(float64(n) / float64(b))) for b > 0.
Ceil(n, b) == (n + b - 1) \div b

\* fmt.Sprintf("%s-seg-%d", t.ID, i)
SegmentID(id, i) == ToString(id) \o "-seg-" \o ToString(i)

\* The sub-task of batch i (from 0): the first and the last ID of
\* VectorIDs[start:end], "" where the index is past the list.
SubTask(t, i, start, end) ==
    [TaskID |-> t.ID,
     SegmentID |-> SegmentID(t.ID, i),
     VectorRange |-> <<IF start < Len(t.VectorIDs) THEN t.VectorIDs[start + 1] ELSE "",
                       IF end - 1 < Len(t.VectorIDs) THEN t.VectorIDs[end] ELSE "">>,
     State |-> Pending]

\* A split whose last batch is not cut at the end of the list.
CreateSubTasksNoCap(t, batchSize) ==
    IF Len(t.VectorIDs) <= batchSize \/ batchSize <= 0
    THEN t
    ELSE [t EXCEPT !.SubTasks =
             [k \in 1..Ceil(Len(t.VectorIDs), batchSize) |->
                 SubTask(t, k - 1, (k - 1) * batchSize, k * batchSize)]]

\* CreateSubTasks(batchSize): nothing when the IDs fit one batch or the
\* batch size is not positive; otherwise one Pending sub-task per batch of
\* batchSize IDs, the last batch cut at the end of the list.
CreateSubTasks(t, batchSize) ==
    IF Len(t.VectorIDs) <= batchSize \/ batchSize <= 0
    THEN t
    ELSE [t EXCEPT !.SubTasks =
             [k \in 1..Ceil(Len(t.VectorIDs), batchSize) |->
                 SubTask(t, k - 1, (k - 1) * batchSize,
                         Min(k * batchSize, Len(t.VectorIDs)))]]

\* No goroutine runs executeTask on the task object.
NoExec == [pc |-> "none", success |-> FALSE, results |-> <<>>]

----------------------------------------------------------------------------
(* The queue *)

\* sort.Slice orders by priority descending and does not promise stability:
\* every arrangement of q with non-increasing priorities is a possible result.
sortTaskQueue(q, tk) ==
    {p \in [1..Len(q) -> {q[k] : k \in DOMAIN q}] :
        /\ \A x \in {q[k] : k \in DOMAIN q} :
              Cardinality({k \in DOMAIN p : p[k] = x}) =
              Cardinality({k \in DOMAIN q : q[k] = x})
        /\ \A k \in 1..(Len(q) - 1) : tk[p[k]].Priority >= tk[p[k + 1]].Priority}

\* processQueue with the capacity test off by one (<= for <).
RECURSIVE processQueueOffByOne(_, _, _)
processQueueOffByOne(q, active, ex) ==
    IF active <= maxConcurrent /\ Len(q) > 0
    THEN processQueueOffByOne(Tail(q), active + 1,
                      [ex EXCEPT ![Head(q)] =
                          [pc |-> "spawned", success |-> FALSE, results |-> <<>>]])
    ELSE [queue |-> q, active |-> active, exec |-> ex]

\* processQueue: while activeTasks < maxConcurrent and the queue is not
\* empty, pop the head, count it active and start executeTask on it.
RECURSIVE processQueue(_, _, _)
processQueue(q, active, ex) ==
    IF active < maxConcurrent /\ Len(q) > 0
    THEN processQueue(Tail(q), active + 1,
                      [ex EXCEPT ![Head(q)] =
                          [pc |-> "spawned", success |-> FALSE, results |-> <<>>]])
    ELSE [queue |-> q, active |-> active, exec |-> ex]

\* The body of QueueTask(task) for the task object i of heap tk: record it
\* under its ID, append it to the queue, sort, then processQueue.
QueueTaskBody(i, tk, ex) ==
    \E q \in sortTaskQueue(Append(taskQueue, i), tk) :
        LET r == processQueue(q, activeTasks, ex) IN
        /\ tasks' = [id \in DOMAIN tasks \cup {tk[i].ID} |->
                        IF id = tk[i].ID THEN i ELSE tasks[id]]
        /\ taskQueue' = r.queue
        /\ activeTasks' = r.active
        /\ exec' = r.exec

----------------------------------------------------------------------------
(* Actions of the transfer orchestrator *)

\* A caller builds a task (NewTransferTask, CreateSubTasks) and queues it;
\* dt is the time passed since the previous task was built.
QueueTask(priority, vectorIDs, batchSize, dt) ==
    /\ now' = now + dt
    /\ LET tk == Append(task, CreateSubTasks(
                                  NewTransferTask(priority, vectorIDs, now + dt),
                                  batchSize)) IN
        /\ task' = tk
        /\ QueueTaskBody(Len(tk), tk, Append(exec, NoExec))
    /\ UNCHANGED <<timers, nonTransferVars>>

\* The time.AfterFunc callback of a failed attempt: ts.QueueTask(task).
RetryTimer(i) ==
    /\ \E timer \in timers : timer.task = i
    /\ timers' = {timer \in timers : timer.task # i}
    /\ QueueTaskBody(i, task, exec)
    /\ UNCHANGED <<now, task, nonTransferVars>>

\* A launching loop that starts every sub-task again.
subTaskPlanRerunAll(subs) == [k \in DOMAIN subs |-> "todo"]

\* executeSubTasks, the launching loop: a sub-task already Completed counts
\* as a success and is skipped, the others are started.
subTaskPlan(subs) ==
    [k \in DOMAIN subs |-> IF subs[k].State = Completed THEN "ok" ELSE "todo"]

\* executeTask, first critical section: InProgress, AttemptCount++.
executeTaskBegin(i) ==
    /\ exec[i].pc = "spawned"
    /\ task' = [task EXCEPT ![i].State = InProgress,
                            ![i].AttemptCount = @ + 1]
    /\ exec' = [exec EXCEPT ![i] =
                   IF Len(task[i].SubTasks) > 0
                   THEN [pc |-> "subtasks", success |-> FALSE,
                         results |-> subTaskPlan(task[i].SubTasks)]
                   ELSE [pc |-> "transfer", success |-> FALSE, results |-> <<>>]]
    /\ UNCHANGED <<now, tasks, taskQueue, activeTasks, timers, nonTransferVars>>

\* executeTransfer: the transfer succeeds or fails; a failure writes LastError.
executeTransfer(i, ok) ==
    /\ exec[i].pc = "transfer"
    /\ task' = [task EXCEPT ![i].LastError = IF ok THEN @ ELSE ErrSimulated]
    /\ exec' = [exec EXCEPT ![i].pc = "finish", ![i].success = ok]
    /\ UNCHANGED <<now, tasks, taskQueue, activeTasks, timers, nonTransferVars>>

\* A sub-task goroutine of executeSubTasks takes a semaphore slot and starts.
subTaskStart(i, k) ==
    /\ exec[i].pc = "subtasks"
    /\ k \in DOMAIN exec[i].results
    /\ exec[i].results[k] = "todo"
    /\ Cardinality({j \in DOMAIN exec[i].results : exec[i].results[j] = "run"})
          < maxSubTaskConcurrency
    /\ task' = [task EXCEPT ![i].SubTasks[k].State = InProgress]
    /\ exec' = [exec EXCEPT ![i].results[k] = "run"]
    /\ UNCHANGED <<now, tasks, taskQueue, activeTasks, timers, nonTransferVars>>

\* The sub-task goroutine ends: Completed and results[k] = true, or Failed
\* and results[k] = false.
subTaskEnd(i, k, ok) ==
    /\ exec[i].pc = "subtasks"
    /\ k \in DOMAIN exec[i].results
    /\ exec[i].results[k] = "run"
    /\ task' = [task EXCEPT ![i].SubTasks[k].State = IF ok THEN Completed ELSE Failed]
    /\ exec' = [exec EXCEPT ![i].results[k] = IF ok THEN "ok" ELSE "fail"]
    /\ UNCHANGED <<now, tasks, taskQueue, activeTasks, timers, nonTransferVars>>

\* executeSubTasks taking one successful sub-task for the success of all.
anySucceeded(results) == \E k \in DOMAIN results : results[k] = "ok"

\* The result of executeSubTasks: true iff no entry of results is false.
allSucceeded(results) == \A k \in DOMAIN results : results[k] = "ok"

\* executeSubTasks after wg.Wait(): the verdict of the attempt.
executeSubTasks(i) ==
    /\ exec[i].pc = "subtasks"
    /\ \A k \in DOMAIN exec[i].results : exec[i].results[k] \in {"ok", "fail"}
    /\ LET ok == allSucceeded(exec[i].results) IN
        /\ task' = [task EXCEPT ![i].LastError = IF ok THEN @ ELSE ErrSubTask]
        /\ exec' = [exec EXCEPT ![i].pc = "finish", ![i].success = ok]
    /\ UNCHANGED <<now, tasks, taskQueue, activeTasks, timers, nonTransferVars>>

\* The decision of executeTask after a failed attempt: retry or give up.
shouldRetry(attemptCount) == attemptCount < MaxRetries

\* The retry configuration of the service, the times in milliseconds and the
\* jitter factor in thousandths.
retryConfig ==
    [MaxRetries |-> MaxRetries, InitialBackoffMs |-> 100, BackoffMultiplier |-> 2,
     MaxBackoffMs |-> 800, JitterFactor |-> 200]

\* The values of rand.Float64() in thousandths: the two ends of
\* [0, 1).
RandThousandths == {0, 999}

\* math.Pow(x, n) for a whole n >= 0.
Pow(x, n) ==
    LET p[k \in 0..n] == IF k = 0 THEN 1 ELSE x * p[k - 1]
    IN  p[n]

\* CalculateBackoff: 0 when the attempts are used up; otherwise
\* InitialBackoffMs * BackoffMultiplier^AttemptCount, capped at MaxBackoffMs,
\* times the jitter 1 - JitterFactor/2 + rand * JitterFactor, cut to whole
\* milliseconds by int64().
CalculateBackoff(attemptCount, config, rand) ==
    IF attemptCount >= config.MaxRetries
    THEN 0
    ELSE LET backoffMs == config.InitialBackoffMs *
                              Pow(config.BackoffMultiplier, attemptCount)
             capped == IF backoffMs > config.MaxBackoffMs
                       THEN config.MaxBackoffMs ELSE backoffMs
             jitter == 1000 - config.JitterFactor \div 2
                            + (rand * config.JitterFactor) \div 1000
         IN  (capped * jitter) \div 1000

\* An executeTask that frees the slot and does not process the queue.
executeTaskEndNoProcessQueue(i, rand) ==
    /\ exec[i].pc = "finish"
    /\ LET retry == ~exec[i].success /\ shouldRetry(task[i].AttemptCount) IN
        /\ task' = [task EXCEPT ![i].State =
                       IF exec[i].success THEN Completed
                       ELSE IF retry THEN Retrying ELSE Failed]
        /\ timers' = IF retry
                      THEN timers \cup
                           {[task |-> i,
                             backoff |-> CalculateBackoff(task[i].AttemptCount,
                                                          retryConfig, rand)]}
                      ELSE timers
        /\ activeTasks' = activeTasks - 1
        /\ exec' = [exec EXCEPT ![i] = NoExec]
    /\ UNCHANGED <<now, tasks, taskQueue, nonTransferVars>>

\* executeTask, second critical section: Completed, or Retrying with a timer,
\* or Failed; then the slot is freed and the queue processed.
executeTaskEnd(i, rand) ==
    /\ exec[i].pc = "finish"
    /\ LET retry == ~exec[i].success /\ shouldRetry(task[i].AttemptCount)
            r == processQueue(taskQueue, activeTasks - 1,
                              [exec EXCEPT ![i] = NoExec]) IN
        /\ task' = [task EXCEPT ![i].State =
                       IF exec[i].success THEN Completed
                       ELSE IF retry THEN Retrying ELSE Failed]
        /\ timers' = IF retry
                      THEN timers \cup
                           {[task |-> i,
                             backoff |-> CalculateBackoff(task[i].AttemptCount,
                                                          retryConfig, rand)]}
                      ELSE timers
        /\ taskQueue' = r.queue
        /\ activeTasks' = r.active
        /\ exec' = r.exec
    /\ UNCHANGED <<now, tasks, nonTransferVars>>

\* The index of the first queue entry whose ID is id, or 0.
firstInQueue(q, id) ==
    IF \E k \in DOMAIN q : task[q[k]].ID = id
    THEN CHOOSE k \in DOMAIN q :
            /\ task[q[k]].ID = id
            /\ \A j \in 1..(k - 1) : task[q[j]].ID # id
    ELSE 0

\* GetTaskStatus(taskID): a copy of the task, whose SubTasks are the task's
\* own sub-task objects, and whether the ID is known.
GetTaskStatus(id) ==
    IF id \in DOMAIN tasks
    THEN [task |-> task[tasks[id]], exists |-> TRUE]
    ELSE [task |-> <<>>, exists |-> FALSE]

\* CancelTask(taskID), when it returns true.
CancelTask(id) ==
    /\ id \in DOMAIN tasks
    /\ task[tasks[id]].State \notin {Completed, Failed}
    /\ task' = [task EXCEPT ![tasks[id]].State = Failed,
                            ![tasks[id]].LastError = ErrCancelled]
    /\ taskQueue' = IF firstInQueue(taskQueue, id) = 0 THEN taskQueue
                    ELSE RemoveAt(taskQueue, firstInQueue(taskQueue, id))
    /\ UNCHANGED <<now, tasks, activeTasks, exec, timers, nonTransferVars>>

TransferInit ==
    /\ RingIdle /\ StoreIdle
    /\ TransferIdle
    /\ MembershipIdle
    /\ DiffIdle

\* The steps of the orchestrator on tasks of either kind.
CommonSteps ==
    \/ \E i \in DOMAIN task : RetryTimer(i)
    \/ \E i \in DOMAIN task : executeTaskBegin(i)
    \/ \E i \in DOMAIN task, ok \in BOOLEAN : executeTransfer(i, ok)
    \/ \E i \in DOMAIN task, rand \in RandThousandths : executeTaskEnd(i, rand)
    \/ \E id \in DOMAIN tasks : CancelTask(id)

\* The steps of executeSubTasks.
SubTaskSteps ==
    \/ \E i \in DOMAIN task : \E k \in DOMAIN task[i].SubTasks : subTaskStart(i, k)
    \/ \E i \in DOMAIN task : \E k \in DOMAIN task[i].SubTasks, ok \in BOOLEAN :
          subTaskEnd(i, k, ok)
    \/ \E i \in DOMAIN task : executeSubTasks(i)

\* The orchestrator with tasks that are moved as one unit.
TransferNext ==
    \/ /\ Len(task) < MaxTasks
       /\ \E p \in Priorities : QueueTask(p, WholeTaskVectors, Len(WholeTaskVectors), 1)
    \/ CommonSteps

SpecTransfer == TransferInit /\ [][TransferNext]_vars

\* What time.Now().UnixNano() can have advanced by between two tasks built
\* one after the other: nothing, when both calls read the same clock value,
\* or more.
ElapsedTimes == {0, 1}

\* The orchestrator with callers that build their tasks at any pace.
PaceNext ==
    \/ /\ Len(task) < MaxTasks
       /\ \E p \in Priorities, dt \in ElapsedTimes :
             QueueTask(p, WholeTaskVectors, Len(WholeTaskVectors), dt)
    \/ CommonSteps

SpecPace == TransferInit /\ [][PaceNext]_vars

\* The task objects followed to their end.
LiveTasks == {1, 2}

\* The orchestrator with its goroutines and timers scheduled fairly: a
\* goroutine that can take its next step takes it, an attempt under way ends,
\* with either outcome, and a timer that was set fires.  The callers of
\* QueueTask and CancelTask are under no obligation.
\* The first task queued may be one that is split into sub-tasks.
LiveNext ==
    \/ /\ Len(task) < Cardinality(LiveTasks)
       /\ \E p \in Priorities : QueueTask(p, WholeTaskVectors, Len(WholeTaskVectors), 1)
    \/ /\ Len(task) = 0
       /\ QueueTask(1, SplitTaskVectors, 1, 1)
    \/ CommonSteps
    \/ SubTaskSteps

Fairness ==
    \A i \in LiveTasks :
        /\ WF_vars(i \in DOMAIN task /\ RetryTimer(i))
        /\ WF_vars(i \in DOMAIN task /\ executeTaskBegin(i))
        /\ WF_vars(i \in DOMAIN task /\ \E ok \in BOOLEAN : executeTransfer(i, ok))
        /\ WF_vars(i \in DOMAIN task
                      /\ \E rand \in RandThousandths : executeTaskEnd(i, rand))
        /\ WF_vars(i \in DOMAIN task
                      /\ \E k \in DOMAIN task[i].SubTasks : subTaskStart(i, k))
        /\ WF_vars(i \in DOMAIN task
                      /\ \E k \in DOMAIN task[i].SubTasks, ok \in BOOLEAN :
                            subTaskEnd(i, k, ok))
        /\ WF_vars(i \in DOMAIN task /\ executeSubTasks(i))

SpecLive == TransferInit /\ [][LiveNext]_vars /\ Fairness

\* The orchestrator with tasks of which some are split into sub-tasks.
SubTaskNext ==
    \/ /\ Len(task) < MaxSplitTasks
       /\ \E batchSize \in SplitBatchSizes : QueueTask(1, SplitTaskVectors, batchSize, 1)
    \/ CommonSteps
    \/ SubTaskSteps

SpecSubTasks == TransferInit /\ [][SubTaskNext]_vars

\* The planner: callers that build tasks, split them and queue them.
SplitNext ==
    /\ Len(task) < MaxTasks
    /\ \E p \in Priorities, n \in 0..Len(PlannedVectors), batchSize \in PlannedBatchSizes :
          QueueTask(p, SubSeq(PlannedVectors, 1, n), batchSize, 1)

SpecSplit == TransferInit /\ [][SplitNext]_vars

\* The orchestrator with tasks of one priority, two more than can run at a
\* time, so that two can wait in the queue.
QueueNext ==
    \/ /\ Len(task) < maxConcurrent + 2
       /\ QueueTask(1, WholeTaskVectors, Len(WholeTaskVectors), 1)
    \/ \E i \in DOMAIN task : RetryTimer(i)
    \/ \E i \in DOMAIN task : executeTaskBegin(i)
    \/ \E i \in DOMAIN task, ok \in BOOLEAN : executeTransfer(i, ok)
    \/ \E i \in DOMAIN task, rand \in RandThousandths : executeTaskEnd(i, rand)

SpecQueue == TransferInit /\ [][QueueNext]_vars

----------------------------------------------------------------------------
(* MembershipService *)

NodeJoined == "NodeJoined"
NodeLeft == "NodeLeft"

NodeStatusJoining == "Joining"
NodeStatusActive == "Active"
NodeStatusLeaving == "Leaving"
NodeStatusDead == "Dead"

OpPending == "pending"
OpRunning == "running"
OpCompleted == "completed"
OpFailed == "failed"

ClusterChangeEvent(type, n, t) == [Type |-> type, NodeID |-> n, Timestamp |-> t]


\* time passes
ClockTick ==
    /\ clock < MaxTicks * TickSeconds
    /\ clock' = clock + TickSeconds
    /\ UNCHANGED <<nodes, pendingEvents, lastEventTime, coordinatorSet, inflight,
                   operations, failedNodes, stopped,
                   nonMembershipVars>>

SetCoordinator ==
    /\ ~coordinatorSet
    /\ coordinatorSet' = TRUE
    /\ UNCHANGED <<clock, nodes, pendingEvents, lastEventTime, inflight,
                   operations, failedNodes, stopped,
                   nonMembershipVars>>

\* RegisterNode announcing every registration, also the later ones.
RegisterNodeAnnouncesAll(n) ==
    /\ IF n \notin DOMAIN nodes
       THEN nodes' = MapPut(nodes, n, [Status |-> NodeStatusJoining,
                                      LastHeartbeat |-> clock])
       ELSE nodes' = [nodes EXCEPT ![n].Status = NodeStatusActive,
                                   ![n].LastHeartbeat = clock]
    /\ pendingEvents' = Append(pendingEvents,
                               ClusterChangeEvent(NodeJoined, n, clock))
    /\ lastEventTime' = clock
    /\ UNCHANGED <<clock, coordinatorSet, inflight, operations, failedNodes, stopped,
                   nonMembershipVars>>

\* RegisterNode: a first registration adds the node as Joining, enqueues
\* NodeJoined and moves the watermark; a later one sets Active and refreshes
\* the heartbeat.
RegisterNode(n) ==
    /\ IF n \notin DOMAIN nodes
       THEN /\ nodes' = MapPut(nodes, n, [Status |-> NodeStatusJoining,
                                         LastHeartbeat |-> clock])
            /\ pendingEvents' = Append(pendingEvents,
                                       ClusterChangeEvent(NodeJoined, n, clock))
            /\ lastEventTime' = clock
       ELSE /\ nodes' = [nodes EXCEPT ![n].Status = NodeStatusActive,
                                      ![n].LastHeartbeat = clock]
            /\ UNCHANGED <<pendingEvents, lastEventTime>>
    /\ UNCHANGED <<clock, coordinatorSet, inflight, operations, failedNodes, stopped,
                   nonMembershipVars>>

\* UnregisterNode of a known node: Leaving, NodeLeft enqueued, watermark moved.
UnregisterNode(n) ==
    /\ n \in DOMAIN nodes
    /\ nodes' = [nodes EXCEPT ![n].Status = NodeStatusLeaving]
    /\ pendingEvents' = Append(pendingEvents, ClusterChangeEvent(NodeLeft, n, clock))
    /\ lastEventTime' = clock
    /\ UNCHANGED <<clock, coordinatorSet, inflight, operations, failedNodes, stopped,
                   nonMembershipVars>>

\* Heartbeat of a known node: the heartbeat time is refreshed, nothing else.
Heartbeat(n) ==
    /\ n \in DOMAIN nodes
    /\ nodes' = [nodes EXCEPT ![n].LastHeartbeat = clock]
    /\ UNCHANGED <<clock, pendingEvents, lastEventTime, coordinatorSet, inflight,
                   operations, failedNodes, stopped, nonMembershipVars>>

\* The window of checkNodeFailures: 30 * int64(time.Second), in seconds.
LivenessWindowSeconds == 30

\* The test of checkNodeFailures on one node at time t.
hasFailed(node, t) ==
    /\ node.Status # NodeStatusLeaving /\ node.Status # NodeStatusDead
    /\ t - node.LastHeartbeat > LivenessWindowSeconds

\* The orders in which a loop over a map with the keys S may visit them.
rangeOrders(S) ==
    {order \in [1..Cardinality(S) -> S] :
        \A i, j \in DOMAIN order : i # j => order[i] # order[j]}

\* checkNodeFailures, first half of a pass: under the lock, the failed nodes
\* are collected; the lock is released.
checkNodeFailuresScan ==
    /\ failedNodes = <<>>
    /\ failedNodes' \in rangeOrders({n \in DOMAIN nodes : hasFailed(nodes[n], clock)})
    /\ UNCHANGED <<clock, nodes, pendingEvents, lastEventTime, coordinatorSet,
                   stopped, inflight, operations, nonMembershipVars>>

\* checkNodeFailures, second half of a pass: ms.UnregisterNode(nodeID) for the
\* next collected node, which takes the lock again.
checkNodeFailuresUnregister ==
    /\ failedNodes # <<>>
    /\ nodes' = [nodes EXCEPT ![Head(failedNodes)].Status = NodeStatusLeaving]
    /\ pendingEvents' = Append(pendingEvents,
                               ClusterChangeEvent(NodeLeft, Head(failedNodes), clock))
    /\ lastEventTime' = clock
    /\ failedNodes' = Tail(failedNodes)
    /\ UNCHANGED <<clock, coordinatorSet, stopped, inflight, operations,
                   nonMembershipVars>>

\* Stop: the body is a comment ("TODO: Implement stopping logic"), the call
\* returns and nothing of the service has changed; stopped notes the call.
Stop ==
    /\ ~stopped.called
    /\ stopped' = [called |-> TRUE, at |-> clock]
    /\ UNCHANGED <<clock, nodes, pendingEvents, lastEventTime, coordinatorSet,
                   failedNodes, inflight, operations, nonMembershipVars>>

\* The test of CheckStabilization: enough time has passed since the last event.
stabilized(t, last) == ~(t - last < StabilizationPeriodSeconds)

\* CheckStabilization handing the batch over without clearing the queue.
CheckStabilizationKeepsQueue ==
    /\ stabilized(clock, lastEventTime)
    /\ Len(pendingEvents) > 0
    /\ coordinatorSet
    /\ inflight' = Append(inflight, pendingEvents)
    /\ UNCHANGED <<clock, nodes, pendingEvents, lastEventTime, coordinatorSet,
                   operations, failedNodes, stopped,
                   nonMembershipVars>>

\* CheckStabilization when it returns true: the pending events are copied
\* into a batch, the queue is cleared, `go TriggerRebalancing(batch)` starts.
CheckStabilization ==
    /\ stabilized(clock, lastEventTime)
    /\ Len(pendingEvents) > 0
    /\ coordinatorSet
    /\ inflight' = Append(inflight, pendingEvents)
    /\ pendingEvents' = <<>>
    /\ UNCHANGED <<clock, nodes, lastEventTime, coordinatorSet, operations,
                   failedNodes, stopped,
                   nonMembershipVars>>

----------------------------------------------------------------------------
(* Coordinator *)

\* The operation TriggerRebalancing records: created pending and, in the same
\* critical section, set completed.
NewOperation(events) == [Status |-> OpCompleted, Events |-> events]

\* The goroutine started by CheckStabilization runs TriggerRebalancing.
TriggerRebalancing(k) ==
    /\ k \in DOMAIN inflight
    /\ operations' = Append(operations, NewOperation(inflight[k]))
    /\ inflight' = RemoveAt(inflight, k)
    /\ UNCHANGED <<clock, nodes, pendingEvents, lastEventTime, coordinatorSet,
                   failedNodes, stopped,
                   nonMembershipVars>>

\* handleCluster, POST with action "join" or "leave": one event with
\* Timestamp 0 goes to TriggerRebalancing at once.
handleCluster(action, n) ==
    /\ operations' = Append(operations, NewOperation(
            <<ClusterChangeEvent(IF action = "join" THEN NodeJoined ELSE NodeLeft,
                                 n, 0)>>))
    /\ UNCHANGED <<clock, nodes, pendingEvents, lastEventTime, coordinatorSet,
                   inflight, failedNodes, stopped,
                   nonMembershipVars>>

\* The rebalance triggers issued so far: started or already recorded.
TriggerCount == Len(inflight) + Len(operations)

MembershipInit ==
    /\ MembershipIdle
    /\ TransferIdle
    /\ RingIdle /\ StoreIdle
    /\ DiffIdle

MembershipNext ==
    \/ ClockTick
    \/ SetCoordinator
    \/ /\ Len(pendingEvents) < MaxPending
       /\ \E n \in NodeIds : RegisterNode(n)
    \/ /\ Len(pendingEvents) < MaxPending
       /\ \E n \in NodeIds : UnregisterNode(n)
    \/ /\ TriggerCount < MaxOps
       /\ CheckStabilization
    \/ \E k \in DOMAIN inflight : TriggerRebalancing(k)
    \/ /\ TriggerCount < MaxOps
       /\ \E a \in {"join", "leave"}, n \in NodeIds : handleCluster(a, n)

SpecMembership == MembershipInit /\ [][MembershipNext]_vars

\* The membership service with its failure detector running beside the
\* callers of register, heartbeat and unregister.
DetectorNext ==
    \/ ClockTick
    \/ /\ Len(pendingEvents) < MaxPending + 2
       /\ \E n \in NodeIds : RegisterNode(n)
    \/ \E n \in NodeIds : Heartbeat(n)
    \/ /\ Len(pendingEvents) < MaxPending + 2
       /\ \E n \in NodeIds : UnregisterNode(n)
    \/ checkNodeFailuresScan
    \/ /\ Len(pendingEvents) < MaxPending + 2
       /\ checkNodeFailuresUnregister

SpecDetector == MembershipInit /\ [][DetectorNext]_vars

\* The membership service with both background loops of Start, the failure
\* detector and the stabilization checker, and a caller of Stop.
StopNext ==
    \/ ClockTick
    \/ SetCoordinator
    \/ /\ Len(pendingEvents) < MaxPending
       /\ \E n \in NodeIds : RegisterNode(n)
    \/ checkNodeFailuresScan
    \/ /\ Len(pendingEvents) < MaxPending + 1
       /\ checkNodeFailuresUnregister
    \/ /\ TriggerCount < MaxOps
       /\ CheckStabilization
    \/ \E k \in DOMAIN inflight : TriggerRebalancing(k)
    \/ Stop

SpecStop == MembershipInit /\ [][StopNext]_vars

----------------------------------------------------------------------------
(* The token ring under add-node and remove-node *)

\* A ring as constructed, for each replication factor and hash function.
RingInit ==
    /\ hashOf \in HashFunctions
    /\ \E rf \in ReplicationFactors : ring = NewTokenRing(VirtualNodes, rf)
    /\ StoreIdle
    /\ TransferIdle
    /\ MembershipIdle
    /\ DiffIdle

RingNext ==
    \/ \E n \in RingNodes : CallAddNode(n)
    \/ \E n \in RingNodes : CallRemoveNode(n)

SpecRing == RingInit /\ [][RingNext]_vars

\* The ring with one more node that can join: four nodes, so that a vector
\* with two owners leaves two nodes that are not its owners.
JoinNext ==
    \/ \E n \in JoinNodes : CallAddNode(n)
    \/ \E n \in JoinNodes : CallRemoveNode(n)

SpecJoin == RingInit /\ [][JoinNext]_vars

\* Two rings built side by side: every AddNode and RemoveNode is called on
\* both, each ring looping over its own map.
CallAddNodeOnBoth(nodeID) ==
    /\ \E seed \in RangeSeeds : ring' = AddNode(ring, nodeID, seed)
    /\ \E seed \in RangeSeeds : otherRing' = AddNode(otherRing, nodeID, seed)
    /\ UNCHANGED <<affected, hashOf, nonDiffVars>>

CallRemoveNodeOnBoth(nodeID) ==
    /\ \E seed \in RangeSeeds : ring' = RemoveNode(ring, nodeID, seed)
    /\ \E seed \in RangeSeeds : otherRing' = RemoveNode(otherRing, nodeID, seed)
    /\ UNCHANGED <<affected, hashOf, nonDiffVars>>

TwinInit ==
    /\ hashOf \in HashFunctions
    /\ \E rf \in ReplicationFactors :
          /\ ring = NewTokenRing(VirtualNodes, rf)
          /\ otherRing = NewTokenRing(VirtualNodes, rf)
    /\ affected = NoDiff
    /\ StoreIdle
    /\ TransferIdle
    /\ MembershipIdle

TwinNext ==
    \/ \E n \in RingNodes : CallAddNodeOnBoth(n)
    \/ \E n \in RingNodes : CallRemoveNodeOnBoth(n)

SpecTwin == TwinInit /\ [][TwinNext]_vars

----------------------------------------------------------------------------
(* The cluster: one store per node, the shared ring, the coordinator *)

ClusterInit ==
    /\ hashOf \in ClusterHashFunctions
    /\ \E rf \in ClusterReplicationFactors : ring = NewTokenRing(VirtualNodes, rf)
    /\ StoreIdle
    /\ TransferIdle
    /\ MembershipIdle
    /\ DiffIdle

ClusterNext ==
    \/ \E n \in NodeIds : CallAddNode(n)
    \/ \E n \in NodeIds : CallRemoveNode(n)
    \/ \E n \in NodeIds : SetTokenRing(n)
    \/ /\ Cardinality(adding) < MaxAdding
       /\ \E n \in NodeIds, id \in StoredIds, values \in PutValues :
             AddVectorCheck(n, id, values)
    \/ \E call \in adding : AddVectorInsert(call)
    \/ \E n \in NodeIds, id \in StoredIds : DeleteVector(n, id)

SpecCluster == ClusterInit /\ [][ClusterNext]_vars

\* The ring of the cluster's nodes with snapshots of it and diffs against the
\* latest snapshot.
DiffNext ==
    \/ \E n \in NodeIds : CallAddNode(n)
    \/ \E n \in NodeIds : CallRemoveNode(n)
    \/ CallClone
    \/ \E ids \in VectorLists : CallFindAffectedVectors(ids)

SpecDiff == ClusterInit /\ [][DiffNext]_vars

\* The cluster with the coordinator's trigger of the /cluster endpoint.
RebalanceNext ==
    \/ \E n \in NodeIds : CallAddNode(n)
    \/ \E n \in NodeIds : CallRemoveNode(n)
    \/ /\ Cardinality(adding) < MaxAdding
       /\ \E n \in NodeIds, id \in StoredIds, values \in PutValues :
             AddVectorCheck(n, id, values)
    \/ \E call \in adding : AddVectorInsert(call)
    \/ \E n \in NodeIds, id \in StoredIds : DeleteVector(n, id)
    \/ /\ TriggerCount < MaxOps
       /\ \E action \in {NodeJoined, NodeLeft}, n \in NodeIds : handleCluster(action, n)

SpecRebalance == ClusterInit /\ [][RebalanceNext]_vars

\* The stores as destinations of transferred batches, under one hash
\* function.
ReceiveInit ==
    /\ hashOf = [key \in HashKeys |-> KeyCode(key) % TokenSpace]
    /\ \E rf \in ClusterReplicationFactors : ring = NewTokenRing(VirtualNodes, rf)
    /\ StoreIdle
    /\ TransferIdle
    /\ MembershipIdle
    /\ DiffIdle

ReceiveNext ==
    \/ \E n \in NodeIds : CallAddNode(n)
    \/ \E n \in NodeIds : CallRemoveNode(n)
    \/ \E n \in NodeIds : SetTokenRing(n)
    \/ \E n \in NodeIds, batch \in Batches : ReceiveVectors(n, batch)

SpecReceive == ReceiveInit /\ [][ReceiveNext]_vars

\* One collection: the stores without a ring and the linear index.
CollectionInit ==
    /\ RingIdle
    /\ attached = {}
    /\ vectors = [n \in NodeIds |-> EmptyMap]
    /\ adding = {}
    /\ lastPut = [n \in NodeIds |-> [id \in VectorIds |-> NoPut]]
    /\ received = NoReceive
    /\ index = EmptyMap
    /\ lastInsert = [called |-> FALSE, ID |-> "", Values |-> <<>>, err |-> ""]
    /\ searching = NoSearch
    /\ TransferIdle
    /\ MembershipIdle
    /\ DiffIdle

CollectionNext ==
    \/ /\ Cardinality(adding) < MaxAdding
       /\ \E id \in VectorIds, values \in PutValues : AddVectorCheck("n1", id, values)
    \/ \E call \in adding : AddVectorInsert(call)
    \/ \E id \in VectorIds : DeleteVector("n1", id)
    \/ \E v \in IndexVectors : Insert(v)
    \/ \E id \in VectorIds : Delete(id)

SpecCollection == CollectionInit /\ [][CollectionNext]_vars

----------------------------------------------------------------------------
(* LinearIndex.Search as it runs: the feeder, the workers, the goroutine that
   closes the result channel, and the caller collecting the results *)

\* numWorkers, also the capacity of workCh and of resultCh: the code takes 1
\* below 1000 entries and 4 from there on; the model tries each count on
\* every index.
WorkerCounts == {1, 2}

\* A worker before its next receive from workCh.
Receiving == [pc |-> "receive", vec |-> ""]

\* The call starts.  A query of the wrong dimension returns the error at
\* once.  Otherwise the caller takes the read lock, caps k, makes the two
\* channels and starts the workers, the closer and the feeder, whose loop
\* over the map visits the entries in some order.
SearchBegin(query, k, filter, numWorkers) ==
    /\ ~searching.running
    /\ IF Len(query) # dimensions
       THEN searching' = [NoSearch EXCEPT !.called = TRUE, !.query = query,
                                          !.err = ErrDimension]
       ELSE \E order \in rangeOrders(DOMAIN index) :
               searching' =
                   [NoSearch EXCEPT
                       !.called = TRUE, !.running = TRUE, !.query = query,
                       !.k = Min(IF k <= 0 THEN 10 ELSE k, Cardinality(DOMAIN index)),
                       !.filter = filter, !.numWorkers = numWorkers,
                       !.feed = order,
                       !.worker = [w \in 1..numWorkers |-> Receiving]]
    /\ UNCHANGED <<index, lastInsert, nonIndexVars>>

\* The feeder: workCh <- vec, which waits while the channel is full.
feederSend ==
    /\ searching.running
    /\ searching.feed # <<>>
    /\ Len(searching.workCh) < searching.numWorkers
    /\ searching' = [searching EXCEPT !.workCh = Append(@, Head(searching.feed)),
                                      !.feed = Tail(@)]
    /\ UNCHANGED <<index, lastInsert, nonIndexVars>>

\* A feeder that ends without closing workCh.
feederEnds ==
    /\ searching.running
    /\ searching.feed = <<>>
    /\ ~searching.feederDone
    /\ searching' = [searching EXCEPT !.feederDone = TRUE]
    /\ UNCHANGED <<index, lastInsert, nonIndexVars>>

\* The feeder after its loop: close(workCh).
feederClose ==
    /\ searching.running
    /\ searching.feed = <<>>
    /\ ~searching.feederDone
    /\ searching' = [searching EXCEPT !.feederDone = TRUE, !.workClosed = TRUE]
    /\ UNCHANGED <<index, lastInsert, nonIndexVars>>

\* Worker w receives a vector: a deleted one and one the filter rejects are
\* skipped; for the others the distance is calculated.
workerReceive(w) ==
    /\ searching.running
    /\ w \in DOMAIN searching.worker
    /\ searching.worker[w].pc = "receive"
    /\ searching.workCh # <<>>
    /\ LET id == Head(searching.workCh)
           skip == index[id].Deleted \/ id \notin searching.filter
       IN  searching' =
               [searching EXCEPT
                   !.workCh = Tail(@),
                   !.evaluated = IF skip THEN @ ELSE Append(@, id),
                   !.worker[w] = IF skip THEN Receiving
                                 ELSE [pc |-> "send", vec |-> id]]
    /\ UNCHANGED <<index, lastInsert, nonIndexVars>>

\* Worker w: resultCh <- distanceResult{...}, which waits while the channel
\* is full.
workerSend(w) ==
    /\ searching.running
    /\ w \in DOMAIN searching.worker
    /\ searching.worker[w].pc = "send"
    /\ Len(searching.resultCh) < searching.numWorkers
    /\ searching' = [searching EXCEPT
                        !.resultCh = Append(@, searching.worker[w].vec),
                        !.worker[w] = Receiving]
    /\ UNCHANGED <<index, lastInsert, nonIndexVars>>

\* Worker w finds workCh closed and empty: its range loop ends, wg.Done().
workerDone(w) ==
    /\ searching.running
    /\ w \in DOMAIN searching.worker
    /\ searching.worker[w].pc = "receive"
    /\ searching.workCh = <<>>
    /\ searching.workClosed
    /\ searching' = [searching EXCEPT !.worker[w] = [pc |-> "done", vec |-> ""]]
    /\ UNCHANGED <<index, lastInsert, nonIndexVars>>

\* The closer: wg.Wait() returns when every worker is done; close(resultCh).
closeResults ==
    /\ searching.running
    /\ ~searching.resultClosed
    /\ \A w \in DOMAIN searching.worker : searching.worker[w].pc = "done"
    /\ searching' = [searching EXCEPT !.resultClosed = TRUE]
    /\ UNCHANGED <<index, lastInsert, nonIndexVars>>

\* The caller receives one result and appends it (no score threshold).
collect ==
    /\ searching.running
    /\ searching.resultCh # <<>>
    /\ searching' = [searching EXCEPT !.results = Append(@, Head(searching.resultCh)),
                                      !.resultCh = Tail(@)]
    /\ UNCHANGED <<index, lastInsert, nonIndexVars>>

\* The caller finds resultCh closed and empty: the results are sorted by
\* ascending distance, cut to k and returned; the read lock is released.
SearchReturn ==
    /\ searching.running
    /\ searching.resultCh = <<>>
    /\ searching.resultClosed
    /\ LET results ==
               {[ID |-> searching.results[i],
                 Distance |-> EuclideanDistance(searching.query,
                                                index[searching.results[i]].Values)] :
                    i \in DOMAIN searching.results}
       IN  \E s \in sortSlice(results, FALSE) :
               searching' = [searching EXCEPT
                                !.running = FALSE,
                                !.returned = IF Len(s) > searching.k
                                             THEN Truncate(s, searching.k) ELSE s]
    /\ UNCHANGED <<index, lastInsert, nonIndexVars>>

\* The steps of the goroutines of a Search call.
SearchSteps ==
    \/ feederSend
    \/ feederClose
    \/ \E w \in 1..searching.numWorkers : workerReceive(w)
    \/ \E w \in 1..searching.numWorkers : workerSend(w)
    \/ \E w \in 1..searching.numWorkers : workerDone(w)
    \/ closeResults
    \/ collect
    \/ SearchReturn

\* The index with callers of Insert, Delete and Search.  Insert and Delete
\* take the write lock, which they get only while no Search holds the read
\* lock; a Search call starts from the index alone, whatever an earlier
\* call left, so the index is built first and searched afterwards.
SearchNext ==
    \/ /\ ~searching.called
       /\ \E v \in IndexVectors : Insert(v)
    \/ /\ ~searching.called
       /\ \E id \in VectorIds : Delete(id)
    \/ \E query \in Queries, k \in SearchLimits, filter \in Filters,
          numWorkers \in WorkerCounts : SearchBegin(query, k, filter, numWorkers)
    \/ SearchSteps

\* The scheduler lets every goroutine that can take a step take it; the
\* callers of Insert, Delete and Search are under no obligation.
SearchFairness ==
    /\ WF_vars(feederSend)
    /\ WF_vars(feederClose)
    /\ \A w \in 1..Max(WorkerCounts) :
          /\ WF_vars(workerReceive(w))
          /\ WF_vars(workerSend(w))
          /\ WF_vars(workerDone(w))
    /\ WF_vars(closeResults)
    /\ WF_vars(collect)
    /\ WF_vars(SearchReturn)

SpecSearch == CollectionInit /\ [][SearchNext]_vars /\ SearchFairness

----------------------------------------------------------------------------
(* Properties of the transfer orchestrator *)

\* A task whose cancellation CancelTask accepted: Failed, reason "cancelled".
IsCancelled(t) == t.State = Failed /\ t.LastError = ErrCancelled

\* C1: once CancelTask has accepted the cancellation of a task, the task is
\* Failed with the cancellation reason and stays so in every later state: no
\* step puts it back to InProgress, Retrying or Completed.
C1_CancelledStaysFailed ==
    [][\A i \in DOMAIN task : IsCancelled(task[i]) => IsCancelled(task'[i])]_vars

\* The tasks in state InProgress.
InProgressTasks == {i \in DOMAIN task : task[i].State = InProgress}

\* C4: the active counter and the number of tasks in progress are both
\* between 0 and maxConcurrent in every reachable state.
C4_ActiveWithinCap ==
    /\ 0 <= activeTasks
    /\ activeTasks <= maxConcurrent
    /\ Cardinality(InProgressTasks) <= maxConcurrent

\* C4 witness: every slot is taken by a task in progress while a task waits.
C4_Witness ==
    /\ activeTasks = maxConcurrent
    /\ Cardinality(InProgressTasks) = maxConcurrent
    /\ Len(taskQueue) > 0

\* C5: an attempt that fails while AttemptCount <= MaxRetries leaves the task
\* Retrying with a re-queue scheduled; the task goes to Failed only when
\* AttemptCount exceeds MaxRetries.
C5_RetryWhileAttemptsLeft ==
    [][\A i \in DOMAIN task :
          (/\ exec[i].pc = "finish"
           /\ exec'[i].pc # "finish"
           /\ ~exec[i].success
           /\ task[i].AttemptCount <= MaxRetries)
          => (task'[i].State = Retrying /\ (\E timer \in timers' : timer.task = i))]_vars

\* C9: a task with sub-tasks is Completed only if each of its sub-tasks is
\* Completed, and an attempt of such a task is a success iff all its
\* sub-tasks are Completed when the attempt has joined them.
AllSubTasksCompleted(t) == \A k \in DOMAIN t.SubTasks : t.SubTasks[k].State = Completed

C9_CompletedImpliesSubTasksCompleted ==
    \A i \in DOMAIN task :
        Len(task[i].SubTasks) > 0 =>
            /\ (task[i].State = Completed => AllSubTasksCompleted(task[i]))
            /\ (exec[i].pc = "finish" =>
                    (exec[i].success <=> AllSubTasksCompleted(task[i])))

\* C9 witness: a task with sub-tasks completed on a retry, after an attempt
\* in which a sub-task had failed.
C9_Witness ==
    \E i \in DOMAIN task :
        /\ Len(task[i].SubTasks) > 0
        /\ task[i].State = Completed
        /\ task[i].AttemptCount >= 2
        /\ task[i].LastError = ErrSubTask

----------------------------------------------------------------------------
(* Properties of the membership gate *)

\* C2: no rebalance trigger is issued while now - lastEventTime is smaller
\* than the stabilization window.
C2_NoTriggerInsideWindow ==
    [][TriggerCount' > TriggerCount =>
          clock - lastEventTime >= StabilizationPeriodSeconds]_vars

IsPrefix(p, q) == Len(p) <= Len(q) /\ SubSeq(q, 1, Len(p)) = p

\* C3: events leave the pending queue only when the stabilization checker
\* fires, and then all together: the batch is the whole queue in arrival
\* order and the queue is empty afterwards; the batch reaches the coordinator
\* unchanged as the events of one operation. No other step drops, repeats
\* or reorders a pending event.
C3_BatchIsWholeQueue ==
    [][/\ IF Len(inflight') > Len(inflight)
          THEN /\ inflight' = Append(inflight, pendingEvents)
               /\ pendingEvents' = <<>>
          ELSE IsPrefix(pendingEvents, pendingEvents')
       /\ Len(inflight') < Len(inflight) =>
             \E k \in DOMAIN inflight :
                 /\ inflight' = RemoveAt(inflight, k)
                 /\ operations' = Append(operations, NewOperation(inflight[k]))]_vars

\* C3 witness: one operation carries the join and the leave of the same node,
\* in that order, and nothing is left pending.
C3_Witness ==
    /\ pendingEvents = <<>>
    /\ \E k \in DOMAIN operations :
          LET ev == operations[k].Events IN
          /\ Len(ev) = 2
          /\ ev[1].Type = NodeJoined
          /\ ev[2].Type = NodeLeft
          /\ ev[1].NodeID = ev[2].NodeID

----------------------------------------------------------------------------
(* Properties of the token ring *)

NoRepeat(list) == \A i, j \in DOMAIN list : i # j => list[i] # list[j]

\* C6: in every ring state reached by add-node and remove-node, for every
\* replication factor R >= 1, the owners of a vector ID are at most
\* min(R, number of nodes in the ring) node IDs and no node ID appears twice.
C6_OwnersBoundedAndDistinct ==
    \A id \in VectorIds :
        LET owners == GetNodesForVector(ring, id)
        IN  /\ Len(owners) <= Min(ring.replicationFactor, Cardinality(GetAllNodes(ring)))
            /\ NoRepeat(owners)

\* C6 happens: a ring of three nodes with R = 2 gives some vector ID two
\* owners although two of its tokens were hashed to the same value.
C6_Witness ==
    /\ Cardinality(GetAllNodes(ring)) = 3
    /\ ring.replicationFactor = 2
    /\ Len(ring.sortedTokens) < 3 * VirtualNodes
    /\ \E id \in VectorIds : Len(GetNodesForVector(ring, id)) = 2

----------------------------------------------------------------------------
(* Properties of the rebalance coordinator *)

\* The ring a batch of membership events describes: r with every join added
\* and every leave removed, in the order of the batch.
RECURSIVE ApplyEvents(_, _, _)
ApplyEvents(r, events, k) ==
    IF k > Len(events) THEN r
    ELSE ApplyEvents(IF events[k].Type = NodeJoined
                     THEN AddNode(r, events[k].NodeID, 0)
                     ELSE RemoveNode(r, events[k].NodeID, 0),
                     events, k + 1)

Holds(n, id) == id \in DOMAIN vectors[n]

\* A vector is live when the ring has owners for it and each of them holds it.
Live(id) ==
    LET owners == GetNodesForVector(ring, id)
    IN  /\ owners # <<>>
        /\ \A k \in DOMAIN owners : Holds(owners[k], id)

\* C7: once a rebalance operation is reported completed, every node that
\* owns a vector under the ring the operation's events lead to holds that
\* vector, for every vector that was live when the operation started.
C7_NewOwnersHoldLiveVectors ==
    [][\A k \in DOMAIN operations' :
          (k \notin DOMAIN operations /\ operations'[k].Status = OpCompleted) =>
             LET newRing == ApplyEvents(ring, operations'[k].Events, 1)
             IN  \A id \in StoredIds :
                    Live(id) =>
                       \A o \in DOMAIN GetNodesForVector(newRing, id) :
                          id \in DOMAIN vectors'[GetNodesForVector(newRing, id)[o]]]_vars

----------------------------------------------------------------------------
(* Properties of the vector store *)

\* get(id) on node n returns exactly these coordinates.
GetReturns(n, id, values) ==
    /\ GetVector(n, id).err = ""
    /\ Len(GetVector(n, id).Values) = Len(values)
    /\ \A i \in DOMAIN values : GetVector(n, id).Values[i] = values[i]

SkippedPut(put) == put.returned /\ put.hasRing /\ ~put.isLocal

C12_ReceivedBatchIsStored ==
    (received.called /\ received.success) =>
        \A k \in DOMAIN received.batch :
            /\ GetVector(received.node, received.batch[k].ID).err = ""
            /\ \E j \in k..Len(received.batch) :
                  /\ received.batch[j].ID = received.batch[k].ID
                  /\ GetReturns(received.node, received.batch[k].ID,
                                received.batch[j].Values)


----------------------------------------------------------------------------
(* Properties of a collection: delete *)

\* The IDs of a result list.
ResultIDs(results) == {results[i].ID : i \in DOMAIN results}

\* Between a delete of its vector and the next put of it, the store does not
\* return the ID from any search and get fails with not found.
DeletedFromStore(n, id) ==
    /\ GetVector(n, id).err = "not found"
    /\ \A query \in Queries, k \in SearchLimits, filter \in Filters :
          \A results \in Search(n, query, k, filter) : id \notin ResultIDs(results)

\* Between a delete of its vector and the next insert of it, the index does
\* not return the ID from any search.
DeletedFromIndex(id) ==
    \A query \in Queries, k \in SearchLimits, filter \in Filters :
       \A results \in LinearIndexSearch(query, k, filter) : id \notin ResultIDs(results)

\* A step that deletes a live vector takes exactly one off the size.
DeleteTakesOneOff ==
    /\ \A n \in NodeIds, id \in VectorIds :
          (lastPut[n][id].returned /\ ~lastPut'[n][id].returned) =>
              totalVectors(n)' = totalVectors(n) - 1
    /\ \A id \in DOMAIN index :
          (~index[id].Deleted /\ index'[id].Deleted) => Size' = Size - 1

\* C13: after delete(id) of a live vector and until that id is put again,
\* no search returns id, get(id) fails with not found, and the size right
\* after the delete is exactly one less than right before it.
C13_DeletedVectorIsGone ==
    /\ [](\A n \in NodeIds, id \in VectorIds :
             ~lastPut[n][id].returned => DeletedFromStore(n, id))
    /\ [](\A id \in DOMAIN index : index[id].Deleted => DeletedFromIndex(id))
    /\ [][DeleteTakesOneOff]_vars

\* A live vector was deleted from the store and from the index while another
\* one stays in both.
C13_Witness ==
    /\ "v2" \in DOMAIN vectors["n1"]
    /\ "v1" \notin DOMAIN vectors["n1"]
    /\ {"v1", "v2"} \subseteq DOMAIN index
    /\ index["v1"].Deleted
    /\ ~index["v2"].Deleted
    /\ Size = 1

----------------------------------------------------------------------------
(* Properties of the retry delay *)

\* The delay the n-th retry is due by the rule
\* min(initial * multiplier^(n-1), max) * jitter, jitter in
\* [1 - JitterFactor/2, 1 + JitterFactor/2]; the bounds in microseconds.
InRetryWindow(n, backoff) ==
    LET base == Min(retryConfig.InitialBackoffMs *
                        Pow(retryConfig.BackoffMultiplier, n - 1),
                    retryConfig.MaxBackoffMs)
    IN  /\ base * (1000 - retryConfig.JitterFactor \div 2) <= backoff * 1000
        /\ backoff * 1000 <= base * (1000 + retryConfig.JitterFactor \div 2)

\* C14: the delay scheduled before the n-th retry of a task is
\* min(initial * multiplier^(n-1), max) times a jitter factor in
\* [1 - jitter/2, 1 + jitter/2]: with initial = 100 ms, multiplier = 2,
\* max = 800 ms and jitter = 0.2 the first retry waits 90 to 110 ms, the
\* second 180 to 220 ms.  The n-th retry is the one scheduled after the n-th
\* attempt failed.
C14_RetryDelayInWindow ==
    \A timer \in timers :
        InRetryWindow(task[timer.task].AttemptCount, timer.backoff)

----------------------------------------------------------------------------
(* Properties of partial success *)

\* A sub-task that is Completed is not started again and stays Completed.
CompletedSubTaskStays ==
    \A i \in DOMAIN task : \A k \in DOMAIN task[i].SubTasks :
        task[i].SubTasks[k].State = Completed =>
            /\ task'[i].SubTasks[k].State = Completed
            /\ exec'[i].pc = "subtasks" => exec'[i].results[k] = "ok"

\* A task whose attempts are used up with a sub-task not Completed is
\* reported Failed, each sub-task with its own final state.
ExhaustedTaskIsFailed ==
    \A id \in DOMAIN tasks :
        LET status == GetTaskStatus(id).task
            i == tasks[id]
        IN  (/\ Len(status.SubTasks) > 0
             /\ status.AttemptCount = MaxRetries
             /\ exec[i] = NoExec
             /\ \E k \in DOMAIN status.SubTasks : status.SubTasks[k].State # Completed)
            => /\ status.State = Failed
               /\ status.SubTasks = task[i].SubTasks
               /\ \A k \in DOMAIN status.SubTasks :
                     status.SubTasks[k].State \in {Completed, Failed}

\* C15: when a sub-task fails on every attempt and the others succeed, the
\* task ends Failed and the others end Completed: a sub-task Completed in an
\* earlier attempt is not run again on a retry and keeps its state, and
\* GetTaskStatus shows the state of each sub-task.
C15_PartialSuccessIsKept ==
    /\ []ExhaustedTaskIsFailed
    /\ [][CompletedSubTaskStays]_vars

\* The task has failed for good with its first sub-task Failed and its
\* second Completed.
C15_Witness ==
    \E id \in DOMAIN tasks :
        /\ GetTaskStatus(id).task.State = Failed
        /\ GetTaskStatus(id).task.AttemptCount = MaxRetries
        /\ GetTaskStatus(id).task.LastError = ErrSubTask
        /\ Len(GetTaskStatus(id).task.SubTasks) = 2
        /\ GetTaskStatus(id).task.SubTasks[1].State = Failed
        /\ GetTaskStatus(id).task.SubTasks[2].State = Completed

----------------------------------------------------------------------------
(* Properties of the split into sub-tasks *)

\* The place of id in the list ids, 0 when it is not in the list.
Position(ids, id) ==
    IF \E j \in DOMAIN ids : ids[j] = id
    THEN CHOOSE j \in DOMAIN ids : ids[j] = id
    ELSE 0

\* c is the ceiling of n / b.
IsCeiling(c, n, b) ==
    /\ b # 0
    /\ IF b > 0 THEN c * b >= n /\ (c - 1) * b < n
                ELSE c * b <= n /\ (c - 1) * b > n

\* The task was split with batch size b: CreateSubTasks(b) on the task as
\* NewTransferTask built it gives its sub-tasks.
SplitWith(t, b) ==
    CreateSubTasks(NewTransferTask(t.Priority, t.VectorIDs, t.CreatedAt), b).SubTasks
        = t.SubTasks

\* Sub-task k carries the first and the last ID of the k-th slice of b IDs
\* (the last slice may be shorter), and the slices follow one another from
\* the first ID to the last without gap or overlap.
SlicesCover(t, b) ==
    LET n == Len(t.VectorIDs)
        count == Len(t.SubTasks)
        first(k) == Position(t.VectorIDs, t.SubTasks[k].VectorRange[1])
        last(k) == Position(t.VectorIDs, t.SubTasks[k].VectorRange[2])
    IN  /\ first(1) = 1
        /\ last(count) = n
        /\ \A k \in 1..count :
              /\ first(k) = (k - 1) * b + 1
              /\ first(k) <= last(k)
              /\ last(k) - first(k) + 1 <= b
              /\ k < count => (last(k) - first(k) + 1 = b /\ first(k + 1) = last(k) + 1)

\* C16 as stated: a split of N IDs with batch size B gives no sub-tasks when
\* N <= B and otherwise exactly the ceiling of N / B sub-tasks, sub-task i
\* with the first and the last ID of the i-th slice of at most B IDs, the
\* slices covering all IDs in order.
C16_SplitForAnyBatchSize ==
    \A i \in DOMAIN task : \A b \in PlannedBatchSizes :
        SplitWith(task[i], b) =>
            IF Len(task[i].VectorIDs) <= b
            THEN task[i].SubTasks = <<>>
            ELSE /\ IsCeiling(Len(task[i].SubTasks), Len(task[i].VectorIDs), b)
                 /\ SlicesCover(task[i], b)

\* C16, amended: with a batch size B >= 1 the split is as stated; with a
\* batch size B <= 0 no sub-tasks are created.
C16_SplitForPositiveBatchSize ==
    \A i \in DOMAIN task : \A b \in PlannedBatchSizes :
        SplitWith(task[i], b) =>
            IF Len(task[i].VectorIDs) <= b \/ b <= 0
            THEN task[i].SubTasks = <<>>
            ELSE /\ IsCeiling(Len(task[i].SubTasks), Len(task[i].VectorIDs), b)
                 /\ SlicesCover(task[i], b)

\* Five IDs were split with batch size 3 into v1..v3 and v4..v5, and four
\* IDs were left whole.
C16_Witness ==
    /\ \E i \in DOMAIN task :
          /\ task[i].VectorIDs = PlannedVectors
          /\ Len(task[i].SubTasks) = 2
          /\ task[i].SubTasks[1].VectorRange = <<"v1", "v3">>
          /\ task[i].SubTasks[2].VectorRange = <<"v4", "v5">>
    /\ \E i \in DOMAIN task :
          /\ Len(task[i].VectorIDs) = 4
          /\ task[i].SubTasks = <<>>

----------------------------------------------------------------------------
(* Properties of the queue order *)

\* The task objects a step picks from the queue and starts.
Picked(i) ==
    /\ exec'[i].pc = "spawned"
    /\ (i \notin DOMAIN exec \/ exec[i].pc = "none")

\* C17: when the orchestrator picks a task from the queue, no task that
\* stays waiting has a strictly higher priority, and a waiting task of the
\* same priority was not created earlier than the picked one.
C17_PickedByPriorityThenAge ==
    [][\A i \in DOMAIN task' : \A k \in DOMAIN taskQueue' :
          Picked(i) =>
              LET j == taskQueue'[k] IN
              /\ task'[j].Priority <= task'[i].Priority
              /\ task'[j].Priority = task'[i].Priority =>
                    task'[i].CreatedAt <= task'[j].CreatedAt]_vars

----------------------------------------------------------------------------
(* Properties of the diff of two rings *)

\* The nodes of a list of owners.
Owners(r, id) == {GetNodesForVector(r, id)[k] : k \in DOMAIN GetNodesForVector(r, id)}

\* The vector IDs the diff lists under node d.
ListedUnder(result, d) ==
    IF d \in DOMAIN result THEN {result[d][k] : k \in DOMAIN result[d]} ELSE {}

\* The latest diff lists x under d iff x is among the IDs given, d owns x in
\* the new ring and d does not own x in the old ring.
DiffIsNewOwners ==
    affected.called =>
        \A d \in NodeIds, x \in VectorIds :
            x \in ListedUnder(affected.result, d) <=>
                /\ \E k \in DOMAIN affected.vectors : affected.vectors[k] = x
                /\ d \in Owners(ring, x)
                /\ d \notin Owners(otherRing, x)

\* C18: the diff of the new ring against the old ring lists vector x under
\* node d iff x is among the IDs given, d is an owner of x in the new ring
\* and d is not an owner of x in the old ring; the call changes neither
\* ring.
C18_DiffListsNewOwners ==
    [][affected' # affected => (DiffIsNewOwners' /\ ring' = ring /\ otherRing' = otherRing)]_vars

\* A diff was computed that lists v1 under a node and leaves out v2, which
\* was given too.
C18_Witness ==
    /\ affected.called
    /\ affected.vectors = <<"v1", "v2">>
    /\ \E d \in NodeIds : ListedUnder(affected.result, d) = {"v1"}
    /\ \A d \in NodeIds : "v2" \notin ListedUnder(affected.result, d)
    /\ Owners(otherRing, "v2") # {}

----------------------------------------------------------------------------
(* Properties of the number of owners *)

\* C19: the owners of every vector ID are exactly min(R, number of nodes of
\* the ring) many: none on an empty ring, all nodes when the ring has fewer
\* than R, and R otherwise.
C19_OwnersCountIsMin ==
    \A id \in VectorIds :
        Len(GetNodesForVector(ring, id)) =
            Min(ring.replicationFactor, Cardinality(GetAllNodes(ring)))

----------------------------------------------------------------------------
(* Properties of two rings built alike *)

\* C20: two rings built from empty with the same number of virtual nodes
\* and the same replication factor by the same sequence of AddNode and
\* RemoveNode calls have the same sorted token list and give the same list
\* of owners for every vector ID.
C20_TwinRingsAgree ==
    /\ ring.sortedTokens = otherRing.sortedTokens
    /\ \A id \in VectorIds :
          GetNodesForVector(ring, id) = GetNodesForVector(otherRing, id)

\* Both rings hold the three nodes, with at least three tokens to sort and
\* two owners for v1.
C20_Witness ==
    /\ DOMAIN ring.nodeTokens = RingNodes
    /\ DOMAIN otherRing.nodeTokens = RingNodes
    /\ Len(ring.sortedTokens) >= 3
    /\ Len(otherRing.sortedTokens) >= 3
    /\ Len(GetNodesForVector(otherRing, "v1")) = 2

----------------------------------------------------------------------------
(* Properties of the failure detector *)

\* The node's heartbeat is older than the liveness window and the node is
\* neither leaving nor dead.
Stale(n) ==
    /\ n \in DOMAIN nodes
    /\ nodes[n].Status \notin {NodeStatusLeaving, NodeStatusDead}
    /\ clock - nodes[n].LastHeartbeat > 30

\* The failure detector unregisters n in this step.
DetectorUnregisters(n) ==
    /\ failedNodes # <<>>
    /\ Head(failedNodes) = n
    /\ failedNodes' = Tail(failedNodes)

\* C21: on each pass of the failure detector, every node that is neither
\* leaving nor dead and whose last heartbeat is older than the liveness
\* window is picked for unregistration, each unregistration sets the status to
\* leaving and enqueues one node-left event, and no node that is leaving or
\* dead already, or whose last heartbeat is within the window, is
\* unregistered.
C21_DetectorUnregistersStaleOnly ==
    [][/\ (failedNodes = <<>> /\ failedNodes' # <<>>)
            => {failedNodes'[k] : k \in DOMAIN failedNodes'}
                  = {n \in NodeIds : Stale(n)}
       /\ \A n \in NodeIds :
            DetectorUnregisters(n)
               => /\ Stale(n)
                  /\ nodes'[n].Status = NodeStatusLeaving
                  /\ pendingEvents' = Append(pendingEvents,
                        [Type |-> NodeLeft, NodeID |-> n, Timestamp |-> clock])]_vars

----------------------------------------------------------------------------
(* Properties of registration *)

\* This step is the first registration of n.
FirstRegister(n) == n \notin DOMAIN nodes /\ n \in DOMAIN nodes'

\* This step is a later registration of n that changed its entry.
LaterRegister(n) ==
    /\ n \in DOMAIN nodes
    /\ nodes'[n] # nodes[n]
    /\ nodes'[n].Status = NodeStatusActive

\* C22: the first register(n) sets the status of n to joining, enqueues
\* exactly one node-joined(n) event and moves the watermark to the present;
\* every later register(n) refreshes the heartbeat and sets the status to
\* active, enqueues no event and leaves the watermark as it was.
C22_FirstRegisterAnnouncesLaterRefreshes ==
    [][\A n \in NodeIds :
          /\ FirstRegister(n)
                => /\ nodes'[n].Status = NodeStatusJoining
                   /\ nodes'[n].LastHeartbeat = clock
                   /\ pendingEvents' = Append(pendingEvents,
                         [Type |-> NodeJoined, NodeID |-> n, Timestamp |-> clock])
                   /\ lastEventTime' = clock
          /\ LaterRegister(n)
                => /\ nodes'[n].LastHeartbeat = clock
                   /\ pendingEvents' = pendingEvents
                   /\ lastEventTime' = lastEventTime]_vars

\* C22 happens: a node registered first and again later; its one node-joined
\* event waits alone and the watermark is older than its heartbeat.
C22_Witness ==
    \E n \in DOMAIN nodes :
        /\ nodes[n].Status = NodeStatusActive
        /\ pendingEvents = <<[Type |-> NodeJoined, NodeID |-> n, Timestamp |-> 0]>>
        /\ lastEventTime = 0
        /\ nodes[n].LastHeartbeat > lastEventTime

----------------------------------------------------------------------------
(* Properties of the result lists of search *)

\* The result limits that are a number of entries.
EntryCounts == {k \in SearchLimits : k >= 0}

\* C23: search(query, k) never returns more than k entries, and with no
\* filter it returns exactly min(k, size) entries: none for k = 0 and all the
\* live vectors for k > size.  Stated for the store of a node and for the
\* linear index.
C23_SearchReturnsMinOfKAndSize ==
    \A query \in Queries, k \in EntryCounts :
        /\ \A filter \in Filters :
              /\ \A results \in Search("n1", query, k, filter) : Len(results) <= k
              /\ \A results \in LinearIndexSearch(query, k, filter) : Len(results) <= k
        /\ \A results \in Search("n1", query, k, NoFilter) :
              Len(results) = Min(k, totalVectors("n1"))
        /\ \A results \in LinearIndexSearch(query, k, NoFilter) :
              Len(results) = Min(k, Size)

\* No entry of the list has a lower Distance than the entry before it.
NonDecreasing(results) ==
    \A i \in 1..(Len(results) - 1) : results[i].Distance <= results[i + 1].Distance

\* No entry of the list has a higher Distance than the entry before it.
NonIncreasing(results) ==
    \A i \in 1..(Len(results) - 1) : results[i].Distance >= results[i + 1].Distance

TieBrokenById(results) ==
    \A i \in 1..(Len(results) - 1) :
        results[i].Distance = results[i + 1].Distance
            => VectorNumber[results[i].ID] < VectorNumber[results[i + 1].ID]

\* The set of lists has one list at most, and with the lists of the search
\* for everything it is the start of a list whose ties are broken by ID.
OneListTiesById(lists, fullLists) ==
    /\ Cardinality(lists) <= 1
    /\ \A results \in lists :
          \E full \in fullLists : TieBrokenById(full) /\ IsPrefix(results, full)

\* C25: candidates of the same distance to the query come out in the
\* lexicographic order of their IDs, so the same contents and the same query
\* give one result list only; when k cuts a tie, the lower ID is the one
\* returned.
C25_TiesBrokenById ==
    \A query \in Queries, k \in {x \in SearchLimits : x >= 1}, filter \in Filters :
        /\ OneListTiesById(Search("n1", query, k, filter),
                           Search("n1", query, Cardinality(VectorIds) + 1, filter))
        /\ OneListTiesById(LinearIndexSearch(query, k, filter),
                           LinearIndexSearch(query, Cardinality(VectorIds) + 1, filter))

----------------------------------------------------------------------------
(* Properties of a repeated delete *)

\* This step deletes the live vector id from the store of n.
StoreDeletes(n, id) == id \in DOMAIN vectors[n] /\ id \notin DOMAIN vectors'[n]

\* This step deletes the live vector id from the index.
IndexDeletes(id) == id \in DOMAIN index /\ ~index[id].Deleted /\ index'[id].Deleted

\* C26: a second delete(id) right after a delete(id) leaves the store as the
\* first left it and gives the caller the outcome the first gave.  Stated for
\* the store of a node and for the linear index.
C26_SecondDeleteIsLikeFirst ==
    [][/\ \A n \in NodeIds, id \in VectorIds :
             StoreDeletes(n, id)
                => /\ DeleteVectorLeaves(vectors'[n], id) = vectors'[n]
                   /\ DeleteVectorError(vectors'[n], id) = DeleteVectorError(vectors[n], id)
       /\ \A id \in VectorIds :
             IndexDeletes(id)
                => /\ DeleteLeaves(index', id) = index'
                   /\ DeleteError(index', id) = DeleteError(index, id)]_vars

----------------------------------------------------------------------------
(* Properties of the dimension check *)

\* An Insert call on the index returned in this step.
InsertReturned == lastInsert' # lastInsert

\* C27: a put of a vector whose number of coordinates is not the collection's
\* dimension fails with the dimension error and leaves the store and the
\* index as they were; every vector a put has stored, in the store of a node
\* or in the index, has exactly the collection's dimension.
C27_WrongDimensionIsRejected ==
    /\ [](\A n \in NodeIds : \A id \in DOMAIN vectors[n] :
             Len(vectors[n][id]) = dimensions)
    /\ [](\A n \in NodeIds, id \in VectorIds :
             lastPut[n][id].returned => Len(lastPut[n][id].Values) = dimensions)
    /\ [](\A id \in DOMAIN index : Len(index[id].Values) = dimensions)
    /\ [][InsertReturned =>
             /\ Len(lastInsert'.Values) # dimensions
                   => (lastInsert'.err # "" /\ index' = index /\ vectors' = vectors)
             /\ lastInsert'.err = "" => Len(lastInsert'.Values) = dimensions]_vars

\* C27 happens: the latest insert into an index that holds a vector had a
\* vector of another dimension and returned the error, and the store of the
\* node holds a vector too.
C27_Witness ==
    /\ lastInsert.called
    /\ Len(lastInsert.Values) # dimensions
    /\ lastInsert.err # ""
    /\ \E id \in DOMAIN index : ~index[id].Deleted
    /\ \E id \in DOMAIN vectors["n1"] : lastPut["n1"][id].returned

----------------------------------------------------------------------------
(* Properties of a repeated add-node *)

\* C28: add-node(n) on a ring that contains n already changes nothing: the
\* nodes, the token map, the sorted token list and the owners of every
\* vector are what they were before the call.
C28_AddNodeTwiceIsOnce ==
    \A n \in GetAllNodes(ring), seed \in RangeSeeds :
        /\ GetAllNodes(AddNode(ring, n, seed)) = GetAllNodes(ring)
        /\ AddNode(ring, n, seed).nodeTokens = ring.nodeTokens
        /\ AddNode(ring, n, seed).tokens = ring.tokens
        /\ AddNode(ring, n, seed).sortedTokens = ring.sortedTokens
        /\ \A id \in VectorIds :
              GetNodesForVector(AddNode(ring, n, seed), id) = GetNodesForVector(ring, id)

\* C28 happens: the ring holds two nodes of which the first one added lost
\* a token to the other, so that writing its tokens again would change the
\* token map and the owners.
C28_Witness ==
    \E n \in GetAllNodes(ring), m \in GetAllNodes(ring) :
        /\ n # m
        /\ \E k \in DOMAIN ring.nodeTokens[n] : ring.tokens[ring.nodeTokens[n][k]] = m
        /\ \E id \in VectorIds, seed \in RangeSeeds :
              GetNodesForVector(AddNodeUnchecked(ring, n, seed), id)
                 # GetNodesForVector(ring, id)

----------------------------------------------------------------------------
(* Properties of the end of a task *)

\* The task object is there and its state is Completed or Failed.
Terminal(i) == i \in DOMAIN task /\ task[i].State \in {Completed, Failed}

----------------------------------------------------------------------------
(* Properties of a put beside a change of the ring *)

\* C30: a put stores no vector that the ring attached at the moment of the
\* write does not assign to the node: the ownership check and the insertion
\* are one step for a concurrent SetTokenRing and for a concurrent add-node
\* or remove-node on the attached ring.
C30_PutStoresOwnedVectorsOnly ==
    [][\A call \in adding :
          (call \notin adding' /\ call.node \in attached)
             => isLocal(call.node, call.ID)]_vars


----------------------------------------------------------------------------
(* C31: no task waits while a slot is free *)

\* A task that failed an attempt and was queued again waits for a slot.
RetriedTaskWaits ==
    \E k \in DOMAIN taskQueue : task[taskQueue[k]].AttemptCount > 0

\* C31: between the critical sections of the orchestrator, the queue holds a
\* task only when activeTasks equals maxConcurrent: a task never waits in the
\* queue while a slot is free, whether the last operation queued a task,
\* ended an attempt, queued a retry or cancelled a task.
C31_NoTaskWaitsWhileSlotFree ==
    Len(taskQueue) > 0 => activeTasks = maxConcurrent

\* A retried task waits in the queue of a full orchestrator while another
\* task was cancelled or has ended.
C31_Witness ==
    /\ RetriedTaskWaits
    /\ activeTasks = maxConcurrent
    /\ \E i \in DOMAIN task : task[i].State \in {Completed, Failed}


----------------------------------------------------------------------------
(* C32: the three structures of the ring *)

\* The entries of a list.
Range(list) == {list[k] : k \in DOMAIN list}

\* Every token of r.tokens belongs to a node of r.nodeTokens and is in that
\* node's list.
TokensAreListed(r) ==
    \A t \in DOMAIN r.tokens :
        /\ r.tokens[t] \in DOMAIN r.nodeTokens
        /\ t \in Range(r.nodeTokens[r.tokens[t]])

\* Every node of r.nodeTokens has a token of its list in r.tokens.
NodesHaveTokens(r) ==
    \A n \in DOMAIN r.nodeTokens :
        \E t \in Range(r.nodeTokens[n]) : t \in DOMAIN r.tokens

\* r.sortedTokens is the keys of r.tokens, each once, ascending.
SortedInSync(r) ==
    /\ Range(r.sortedTokens) = DOMAIN r.tokens
    /\ \A k \in 1..(Len(r.sortedTokens) - 1) :
          r.sortedTokens[k] < r.sortedTokens[k + 1]

\* C32: after any sequence of AddNode and RemoveNode calls the three
\* structures of the ring agree: every token of the map belongs to one node
\* and is in that node's token list, a node is in the per-node lists iff at
\* least one of its tokens is in the map, and the sorted token list is the
\* sorted set of the keys of the map.
C32_RingStructuresAgree ==
    /\ TokensAreListed(ring)
    /\ NodesHaveTokens(ring)
    /\ SortedInSync(ring)


----------------------------------------------------------------------------
(* C33: a join undone by a leave *)

\* The clone of r after the events node-joined(n), node-left(n).
JoinedThenLeft(r, n, seedJoin, seedLeave) ==
    RemoveNode(AddNode(Clone(r), n, seedJoin), n, seedLeave)

\* The diff of the two rings lists no vector of ids under any node.
NoMoves(r, oldRing, ids) == FindAffectedVectors(r, oldRing, ids) = EmptyMap

\* C33: for a node n that is not in the ring, the clone of the ring with n
\* added and then removed gives, against the ring, a diff without moves for
\* every list of vector IDs, and every vector ID has the same owners in
\* both rings.
C33_JoinThenLeaveMovesNothing ==
    \A n \in RingNodes \ GetAllNodes(ring), seedJoin \in RangeSeeds, seedLeave \in RangeSeeds :
        LET newRing == JoinedThenLeft(ring, n, seedJoin, seedLeave)
        IN  /\ \A ids \in VectorLists : NoMoves(newRing, ring, ids)
            /\ \A id \in VectorIds :
                  GetNodesForVector(newRing, id) = GetNodesForVector(ring, id)


----------------------------------------------------------------------------
(* C34: the failure detector and a heartbeat that arrives late *)

\* C34: the failure detector unregisters a node only if, at the moment it
\* marks the node leaving, the node's last heartbeat is still older than the
\* liveness window and its status is still neither leaving nor dead: a
\* heartbeat or a registration that arrives between the scan and the
\* unregistration keeps the node from being unregistered.
C34_DetectorChecksAgainBeforeUnregistering ==
    [][\A n \in NodeIds :
          DetectorUnregisters(n) =>
              /\ n \in DOMAIN nodes
              /\ clock - nodes[n].LastHeartbeat > LivenessWindowSeconds
              /\ nodes[n].Status # NodeStatusLeaving
              /\ nodes[n].Status # NodeStatusDead]_vars


----------------------------------------------------------------------------
(* C35: the events of one node *)

\* The events enqueued for node n, oldest first.  No trigger drains the
\* queue of the service watched by its failure detector, so the queue holds
\* every event enqueued so far.
EventsOf(n) == SelectSeq(pendingEvents, LAMBDA event : event.NodeID = n)

\* node-joined, node-left, node-joined, ... from the first event on.
Alternates(events) ==
    \A k \in DOMAIN events :
        events[k].Type = IF k % 2 = 1 THEN NodeJoined ELSE NodeLeft

\* The status GetActiveNodes counts: joining or active.
IsActive(n) ==
    /\ n \in DOMAIN nodes
    /\ nodes[n].Status \in {NodeStatusJoining, NodeStatusActive}

\* The latest event enqueued for n is node-joined.
LatestIsJoined(n) ==
    /\ EventsOf(n) # <<>>
    /\ EventsOf(n)[Len(EventsOf(n))].Type = NodeJoined

\* C35: for every node the events enqueued alternate node-joined,
\* node-left, node-joined, ..., starting with node-joined, and the node is
\* joining or active exactly when the latest event enqueued for it is
\* node-joined: a node that comes back after leaving gets a new node-joined
\* event and a node that is leaving already gets no second node-left event.
C35_EventsAlternateAndMatchStatus ==
    \A n \in NodeIds :
        /\ Alternates(EventsOf(n))
        /\ IsActive(n) <=> LatestIsJoined(n)


----------------------------------------------------------------------------
(* C36: the destinations of the moves after a join *)

\* The nodes the diff names as destinations.
Destinations(result) == {d \in DOMAIN result : result[d] # <<>>}

\* C36: when one node n that is not in the ring is added to a clone of the
\* ring, the diff of the clone against the ring names only n as a
\* destination: no vector ID is newly assigned to a node that was in the
\* ring already.
C36_JoinMovesToJoinerOnly ==
    \A n \in JoinNodes \ GetAllNodes(ring), seed \in RangeSeeds, ids \in VectorLists :
        Destinations(FindAffectedVectors(AddNode(Clone(ring), n, seed), ring, ids))
            \subseteq {n}


----------------------------------------------------------------------------
(* C37: the length of the queue of pending events *)

\* C37: the number of pending cluster change events never exceeds the
\* configured maximum, config.MaxPendingEvents, whatever sequence of
\* register and unregister calls happens between two triggers.
C37_PendingEventsWithinMaximum ==
    Len(pendingEvents) <= MaxPendingEvents


----------------------------------------------------------------------------
(* C38: the background loops after Stop *)

\* Stop was called and a tick of the loops has passed since.
TickAfterStop == stopped.called /\ clock > stopped.at

\* The failure detector begins a pass that picks nodes, or unregisters one.
DetectorActs ==
    \/ failedNodes = <<>> /\ failedNodes' # <<>>
    \/ \E n \in NodeIds : DetectorUnregisters(n)

\* The stabilization checker issues a rebalance trigger.
CheckerTriggers == Len(inflight') + Len(operations') > Len(inflight) + Len(operations)

\* C38: after the membership service is stopped, its failure-detector loop
\* and its stabilization loop stop at the next tick: from then on they
\* unregister no node and issue no rebalance trigger.
C38_LoopsStopAfterStop ==
    [][TickAfterStop => (~DetectorActs /\ ~CheckerTriggers)]_vars


----------------------------------------------------------------------------
(* C39: the identifiers of tasks *)

\* GetTaskStatus(ID of task object i) shows task object i.
ObservableUnderOwnId(i) ==
    /\ GetTaskStatus(task[i].ID).exists
    /\ tasks[task[i].ID] = i

\* C39: distinct transfer tasks have distinct identifiers, so that queuing
\* a task never replaces the record of another task and every queued task
\* stays observable and cancellable under its own ID.
C39_TaskIdsAreDistinct ==
    /\ \A i, j \in DOMAIN task : i # j => task[i].ID # task[j].ID
    /\ \A i \in DOMAIN task : ObservableUnderOwnId(i)


----------------------------------------------------------------------------
(* C40: the goroutines of a search *)

\* The entries the workers have to evaluate: not deleted, accepted by the
\* filter.
Accepted == {id \in DOMAIN index \cap searching.filter : ~index[id].Deleted}

\* While the call runs no entry is evaluated or collected twice and none
\* that is deleted or filtered out; when the call has returned, every
\* accepted entry was evaluated once and collected once.
CollectedOnce ==
    /\ NoRepeat(searching.evaluated)
    /\ NoRepeat(searching.results)
    /\ Range(searching.results) \subseteq Range(searching.evaluated)
    /\ Range(searching.evaluated) \subseteq Accepted
    /\ (searching.called /\ ~searching.running /\ searching.err = NoError)
          => /\ Range(searching.evaluated) = Accepted
             /\ Range(searching.results) = Accepted

============================================================================
